---- MODULE Spec2Model ----
(***************************************************************************)
(* Hybrid retrieval engine of Dev-Knowlege-Copilot:                        *)
(*   backend/retrieval/vector_store.py  (VectorStore, FAISS IndexFlatIP)   *)
(*   backend/retrieval/bm25_store.py    (BM25Store, rank_bm25 BM25Okapi)   *)
(*   backend/retrieval/hybrid.py        (hybrid_search, RRF + title boost) *)
(*                                                                         *)
(* Scalars are integers: a vector is a tuple of small integers and its     *)
(* inner product is exact; BM25 and RRF scores are fixed-point integers.   *)
(***************************************************************************)
EXTENDS Integers, Sequences, FiniteSets, TLC

VARIABLES
    vs_index,       \* VectorStore._index per process (some = FALSE: None)
    vs_next_id,     \* VectorStore._next_id per process
    faiss_file,     \* the file at settings.faiss_index_path, shared by the processes
    bm_index,       \* BM25Store.index of the server's bm25_store (some = FALSE: None)
    bm_faiss_ids,   \* BM25Store.faiss_ids
    bm25_file,      \* the file at settings.bm25_index_path
    b_pc,           \* where the thread running build_index stands
    b_chunks,       \* its chunks argument
    s_pc,           \* where the thread running BM25Store.search stands
    s_query,        \* its query argument
    s_top_k,        \* its top_k argument
    s_index,        \* the index object it computed its scores from
    db_chunks,      \* faiss_id of the rows of the chunks table, in insertion order
    query_logs,     \* rows of the query_logs table, in insertion order
    chunker,        \* the call of chunk_document or chunk_code under way
    out             \* what the last call returned or raised

vecVars == <<vs_index, vs_next_id, faiss_file>>
lexVars == <<bm_index, bm_faiss_ids, bm25_file, b_pc, b_chunks, s_pc, s_query, s_top_k, s_index>>
vars == <<vecVars, lexVars, db_chunks, query_logs, chunker, out>>

\* ------------------------------------------------------------------------
\* Bounds of the model
\* ------------------------------------------------------------------------
\* settings.embed_dimension, scaled down from 384
dimension == 2
\* largest number of vectors an index is grown to
MaxVectors == 3
\* largest top_k a caller asks for
MaxTopK == 2
\* largest number of chunks handed to one build_index call
MaxChunks == 3
\* latest reading of the clock within one hybrid_search call, in ticks
MaxTicks == 2
\* most rows the query_logs table takes
MaxLogs == 1
\* most tokens of a document or of a code block
MaxTokens == 4
\* largest settings.chunk_size (settings.chunk_overlap runs from 0 to it)
MaxChunkSize == 3
\* most structural blocks of a code file
MaxBlocks == 2

\* The processes that own a vector_store singleton: the API server
\* (main.py: load_or_create at startup, searches, save at shutdown) and the
\* ingestion script (scripts/ingest_docs.py: load_or_create, add_embeddings,
\* save).
Procs == {"server", "ingest"}

\* k = 60 of the rank fusion
rrf_k == 60

\* score * 3.0 of the title boost
TitleBoost == 3

\* top_k * 10: the pool both searches are asked for in the fused branch
PoolFactor == 10

\* len(w) > 2: the length a keyword must exceed
MinKeywordLen == 2

\* ticks of time.perf_counter in a second: a reading is a count of half
\* milliseconds, so that int(... * 1000) has a fraction to cut
TicksPerSecond == 2000

\* ------------------------------------------------------------------------
\* Helpers on sequences
\* ------------------------------------------------------------------------
Min(a, b) == IF a < b THEN a ELSE b

\* list(range(a, a + n))
Range(a, n) == [i \in 1..n |-> a + i - 1]

RECURSIVE SumSeq(_)
SumSeq(s) == IF s = <<>> THEN 0 ELSE Head(s) + SumSeq(Tail(s))

RECURSIVE Flatten(_)
Flatten(ss) == IF ss = <<>> THEN <<>> ELSE Head(ss) \o Flatten(Tail(ss))

\* ------------------------------------------------------------------------
\* Vectors
\* ------------------------------------------------------------------------
\* unit vector along axis a, and the diagonal vector, both of width w
Axis(a, w) == [j \in 1..w |-> IF j = a THEN 2 ELSE 0]
Diag(w) == [j \in 1..w |-> 1]

\* rows an embedding provider of the configured width can produce
Vectors == {Axis(1, dimension), Diag(dimension)}
\* rows of a provider configured with another model (one column more)
WideVectors == {Axis(1, dimension + 1)}

\* query_vector = None
NoVector == <<>>

\* batches of N rows, all of one width (an N x D matrix)
Batches ==
    UNION {[1..n -> Vectors] : n \in 0..MaxVectors} \cup {<<w>> : w \in WideVectors}

TopKs == 1..MaxTopK

\* inner product of two rows of the same width
Dot(u, v) == SumSeq([j \in 1..Len(u) |-> u[j] * v[j]])

\* ------------------------------------------------------------------------
\* VectorStore (backend/retrieval/vector_store.py)
\* ------------------------------------------------------------------------
\* self._index = None
NoIndex == [some |-> FALSE, d |-> 0, xb |-> <<>>]

\* faiss.IndexFlatIP(d): an empty flat index of width d
IndexFlatIP(d) == [some |-> TRUE, d |-> d, xb |-> <<>>]

\* index.ntotal
ntotal(index) == Len(index.xb)

\* no file at the path
NoFile == [kind |-> "none", d |-> 0, ntotal |-> 0, codes |-> <<>>]

\* a file a writer was stopped in the middle of: it does not parse
CorruptFile == [kind |-> "corrupt", d |-> 0, ntotal |-> 0, codes |-> <<>>]

\* faiss.write_index: the header (d, ntotal) and the rows as one flat array
write_index(index) ==
    [kind |-> "index", d |-> index.d, ntotal |-> ntotal(index),
     codes |-> Flatten(index.xb)]

\* read_index with the rows taken from the end of the array backwards
read_index_reversed(file) ==
    [some |-> TRUE, d |-> file.d,
     xb |-> [i \in 1..file.ntotal |->
                SubSeq(file.codes, (file.ntotal - i) * file.d + 1,
                       (file.ntotal - i + 1) * file.d)]]

\* faiss.read_index: cuts the flat array back into ntotal rows of width d
read_index(file) ==
    [some |-> TRUE, d |-> file.d,
     xb |-> [i \in 1..file.ntotal |->
                SubSeq(file.codes, (i - 1) * file.d + 1, i * file.d)]]

\* VectorStore.__init__: nothing loaded, counter at 0
FreshStore == [index |-> NoIndex, next_id |-> 0]

\* load_or_create starting empty on a file it cannot parse
LoadOutcomeStartingEmpty(index, next_id, file) ==
    IF file.kind = "none" \/ file.kind = "corrupt"
    THEN [err |-> "", index |-> IndexFlatIP(dimension), next_id |-> 0]
    ELSE [err |-> "", index |-> read_index(file), next_id |-> file.ntotal]

\* load_or_create: what it leaves in the store, or the error it raises
\* (faiss.read_index raises on a file it cannot parse, before any assignment)
LoadOutcome(index, next_id, file) ==
    IF file.kind = "none"
    THEN [err |-> "", index |-> IndexFlatIP(dimension), next_id |-> 0]
    ELSE IF file.kind = "corrupt"
    THEN [err |-> "RuntimeError", index |-> index, next_id |-> next_id]
    ELSE [err |-> "", index |-> read_index(file), next_id |-> file.ntotal]

\* ids counted from 1 instead of from the counter
AssignedIdsFromOne(next_id, n) == Range(next_id + 1, n)

\* assigned_ids = list(range(self._next_id, self._next_id + n))
AssignedIds(next_id, n) == Range(next_id, n)

\* add_embeddings advancing the counter before index.add checks the width
AddOutcomeCountingFirst(index, next_id, batch) ==
    IF ~index.some
    THEN [err |-> "AssertionError", index |-> index, next_id |-> next_id, ids |-> <<>>]
    ELSE IF \E i \in 1..Len(batch) : Len(batch[i]) # index.d
    THEN [err |-> "AssertionError", index |-> index,
          next_id |-> next_id + Len(batch), ids |-> <<>>]
    ELSE [err |-> "",
          index |-> [index EXCEPT !.xb = index.xb \o batch],
          next_id |-> next_id + Len(batch),
          ids |-> AssignedIds(next_id, Len(batch))]

\* add_embeddings putting the new rows in front of the stored ones
AddOutcomePrepending(index, next_id, batch) ==
    IF ~index.some
    THEN [err |-> "AssertionError", index |-> index, next_id |-> next_id, ids |-> <<>>]
    ELSE IF \E i \in 1..Len(batch) : Len(batch[i]) # index.d
    THEN [err |-> "AssertionError", index |-> index, next_id |-> next_id, ids |-> <<>>]
    ELSE [err |-> "",
          index |-> [index EXCEPT !.xb = batch \o index.xb],
          next_id |-> next_id + Len(batch),
          ids |-> AssignedIds(next_id, Len(batch))]

\* add_embeddings: the asserts, index.add (which asserts the width), the counter
AddOutcome(index, next_id, batch) ==
    IF ~index.some
    THEN [err |-> "AssertionError", index |-> index, next_id |-> next_id, ids |-> <<>>]
    ELSE IF \E i \in 1..Len(batch) : Len(batch[i]) # index.d
    THEN [err |-> "AssertionError", index |-> index, next_id |-> next_id, ids |-> <<>>]
    ELSE [err |-> "",
          index |-> [index EXCEPT !.xb = index.xb \o batch],
          next_id |-> next_id + Len(batch),
          ids |-> AssignedIds(next_id, Len(batch))]

\* save without the ntotal == 0 half of its guard
SaveOutcomeNoEmptyGuard(index, file) ==
    IF ~index.some THEN file ELSE write_index(index)

\* save: the file it leaves at index_path
SaveOutcome(index, file) ==
    IF ~index.some \/ ntotal(index) = 0 THEN file ELSE write_index(index)

\* IndexFlatIP.search, one query row: the k best rows by inner product,
\* best first, equal scores by position; -1 labels fill up to k
FlatScore(index, qv, i) == Dot(index.xb[i], qv)

FlatBefore(index, qv, i, j) ==
    \/ FlatScore(index, qv, i) > FlatScore(index, qv, j)
    \/ FlatScore(index, qv, i) = FlatScore(index, qv, j) /\ i < j

FlatNth(index, qv, r) ==
    CHOOSE i \in 1..ntotal(index) :
        Cardinality({j \in 1..ntotal(index) : FlatBefore(index, qv, j, i)}) = r - 1

FlatSearch(index, qv, k) ==
    [r \in 1..k |->
        IF r <= ntotal(index)
        THEN [idx |-> FlatNth(index, qv, r) - 1,
              score |-> FlatScore(index, qv, FlatNth(index, qv, r))]
        ELSE [idx |-> -1, score |-> 0]]

\* the loop keeping the -1 labels as results
KeepMissing(hits) ==
    [r \in 1..Len(hits) |-> [faiss_id |-> hits[r].idx, score |-> hits[r].score]]

\* the loop of search_by_vector: drop the -1 labels
RECURSIVE DropMissing(_)
DropMissing(hits) ==
    IF hits = <<>> THEN <<>>
    ELSE IF Head(hits).idx = -1 THEN DropMissing(Tail(hits))
    ELSE <<[faiss_id |-> Head(hits).idx, score |-> Head(hits).score]>>
             \o DropMissing(Tail(hits))

\* search_by_vector answering an unloaded store with no results
SearchOutcomeNoAssert(index, qv, k) ==
    IF ~index.some THEN [err |-> "", results |-> <<>>]
    ELSE IF qv = NoVector THEN [err |-> "AttributeError", results |-> <<>>]
    ELSE IF Len(qv) # index.d THEN [err |-> "AssertionError", results |-> <<>>]
    ELSE [err |-> "", results |-> DropMissing(FlatSearch(index, qv, k))]

\* search_by_vector: the assert, query_vector.ndim (None has no such
\* attribute), the width check of index.search, the loop
SearchOutcome(index, qv, k) ==
    IF ~index.some THEN [err |-> "AssertionError", results |-> <<>>]
    ELSE IF qv = NoVector THEN [err |-> "AttributeError", results |-> <<>>]
    ELSE IF Len(qv) # index.d THEN [err |-> "AssertionError", results |-> <<>>]
    ELSE [err |-> "", results |-> DropMissing(FlatSearch(index, qv, k))]

\* ------------------------------------------------------------------------
\* Texts: sequences of characters
\* ------------------------------------------------------------------------
\* str.lower on the characters in use
LowerChar(c) ==
    CASE c = "A" -> "a" [] c = "B" -> "b" [] c = "C" -> "c"
      [] c = "X" -> "x" [] OTHER -> c

\* text.lower()
Lower(text) == [i \in 1..Len(text) |-> LowerChar(text[i])]

\* text.replace(old, " ")
ReplaceChar(text, old) == [i \in 1..Len(text) |-> IF text[i] = old THEN " " ELSE text[i]]

\* str.split(): the maximal runs of characters other than whitespace
RECURSIVE SplitFrom(_, _, _)
SplitFrom(text, i, word) ==
    IF i > Len(text) THEN (IF word = <<>> THEN <<>> ELSE <<word>>)
    ELSE IF text[i] = " "
    THEN (IF word = <<>> THEN <<>> ELSE <<word>>) \o SplitFrom(text, i + 1, <<>>)
    ELSE SplitFrom(text, i + 1, Append(word, text[i]))

Split(text) == SplitFrom(text, 1, <<>>)

\* BM25Store._tokenize
Tokenize(text) ==
    Split(ReplaceChar(ReplaceChar(ReplaceChar(Lower(text), "("), ")"), "."))

\* ------------------------------------------------------------------------
\* The chunks table and the queries
\* ------------------------------------------------------------------------
\* rows of the chunks table, in faiss_id order: "abc", "Cab.cab", "(xyz)", "()"
ChunkRows ==
    << [faiss_id |-> 0, text |-> <<"a", "b", "c">>],
       [faiss_id |-> 1, text |-> <<"C", "a", "b", ".", "c", "a", "b">>],
       [faiss_id |-> 2, text |-> <<"(", "x", "y", "z", ")">>],
       [faiss_id |-> 3, text |-> <<"(", ")">>] >>

\* chunk lists handed to build_index: a run of consecutive rows of the table
\* (what a SELECT ... ORDER BY faiss_id returns), the empty one included
ChunkLists ==
    {cs \in {SubSeq(ChunkRows, i, j) : i \in 1..Len(ChunkRows), j \in 0..Len(ChunkRows)} :
        Len(cs) <= MaxChunks}

\* query strings: "abc", "Abc cab", "cab?"
Queries ==
    { <<"a", "b", "c">>,
      <<"A", "b", "c", " ", "c", "a", "b">>,
      <<"c", "a", "b", "?">> }

\* ------------------------------------------------------------------------
\* rank_bm25.BM25Okapi as BM25Store uses it (k1 = 1.5, b = 0.75, epsilon = 0.25)
\* ------------------------------------------------------------------------
\* number of occurrences of word w in a tokenised document
RECURSIVE CountIn(_, _)
CountIn(doc, w) ==
    IF doc = <<>> THEN 0
    ELSE (IF Head(doc) = w THEN 1 ELSE 0) + CountIn(Tail(doc), w)

\* the words of the corpus (keys of nd / idf)
Vocabulary(corpus) == UNION {{corpus[i][j] : j \in 1..Len(corpus[i])} : i \in 1..Len(corpus)}

\* nd[w]: number of documents that hold w
DocCount(corpus, w) == Cardinality({i \in 1..Len(corpus) : CountIn(corpus[i], w) > 0})

\* sum of the document lengths (avgdl = TotalLen / corpus_size)
TotalLen(corpus) == SumSeq([i \in 1..Len(corpus) |-> Len(corpus[i])])

\* 1000 * ln(n) for the odd n that 2 * count + 1 takes
LnMilli(n) ==
    CASE n = 1 -> 0 [] n = 3 -> 1099 [] n = 5 -> 1609 [] n = 7 -> 1946
      [] n = 9 -> 2198 [] n = 11 -> 2398 [] OTHER -> 2565

\* math.log(corpus_size - freq + 0.5) - math.log(freq + 0.5), times 1000
RawIdf(corpus, w) ==
    LnMilli(2 * (Len(corpus) - DocCount(corpus, w)) + 1)
        - LnMilli(2 * DocCount(corpus, w) + 1)

RECURSIVE SumOver(_, _)
SumOver(corpus, words) ==
    IF words = {} THEN 0
    ELSE LET w == CHOOSE x \in words : TRUE
         IN RawIdf(corpus, w) + SumOver(corpus, words \ {w})

\* idf_sum of _calc_idf
IdfSum(corpus) == SumOver(corpus, Vocabulary(corpus))

\* self.idf.get(q) or 0, in units of 1 / (4000 * len(self.idf)):
\* a negative idf is replaced by eps = 0.25 * idf_sum / len(self.idf)
Idf(corpus, w) ==
    IF w \notin Vocabulary(corpus) THEN 0
    ELSE IF RawIdf(corpus, w) < 0 THEN IdfSum(corpus)
    ELSE RawIdf(corpus, w) * 4 * Cardinality(Vocabulary(corpus))

\* q_freq * (k1 + 1) / (q_freq + k1 * (1 - b + b * doc_len / avgdl)), times 1000
TfMilli(corpus, i, w) ==
    LET tf == CountIn(corpus[i], w)
        total == TotalLen(corpus)
    IN IF tf = 0 THEN 0
       ELSE (20000 * tf * total)
                \div (8 * tf * total + 3 * total + 9 * Len(corpus[i]) * Len(corpus))

\* get_scores: score[i] accumulated over the query tokens, repeats included
RECURSIVE ScoreOf(_, _, _)
ScoreOf(corpus, i, qtokens) ==
    IF qtokens = <<>> THEN 0
    ELSE Idf(corpus, Head(qtokens)) * TfMilli(corpus, i, Head(qtokens))
             + ScoreOf(corpus, i, Tail(qtokens))

\* self.index = None
NoBM25 == [some |-> FALSE, corpus |-> <<>>, built_from |-> <<>>]

\* BM25Okapi(corpus). built_from is history: the faiss_ids of the chunks the
\* corpus was tokenised from; only properties read it.
BM25Okapi(corpus, ids) == [some |-> TRUE, corpus |-> corpus, built_from |-> ids]

\* BM25Okapi(corpus) raises ZeroDivisionError (idf_sum / len(self.idf)) when
\* no document of the corpus holds a word
BM25OkapiRaises(corpus) == Vocabulary(corpus) = {}

\* np.argsort(scores)[::-1]: position i comes before j when its score is
\* higher, or equal with i the later position
ArgBefore(scores, i, j) ==
    scores[i] > scores[j] \/ (scores[i] = scores[j] /\ i > j)

ArgNth(scores, r) ==
    CHOOSE i \in 1..Len(scores) :
        Cardinality({j \in 1..Len(scores) : ArgBefore(scores, j, i)}) = r - 1

\* top_indices = np.argsort(scores)[::-1][:top_k], as positions from 0
TopIndices(scores, top_k) ==
    [r \in 1..Min(top_k, Len(scores)) |-> ArgNth(scores, r) - 1]

\* the result loop without its `scores[idx] > 0` test
RECURSIVE CollectHitsKeepingZeros(_, _, _)
CollectHitsKeepingZeros(scores, top, ids) ==
    IF top = <<>> THEN [err |-> "", results |-> <<>>]
    ELSE IF Head(top) + 1 > Len(ids) THEN [err |-> "IndexError", results |-> <<>>]
    ELSE LET rest == CollectHitsKeepingZeros(scores, Tail(top), ids)
         IN IF rest.err # "" THEN rest
            ELSE [err |-> "",
                  results |-> <<[faiss_id |-> ids[Head(top) + 1],
                                 score |-> scores[Head(top) + 1]]>> \o rest.results]

\* the result loop of BM25Store.search over top_indices with the faiss_ids
\* list as it stands: IndexError when a position is past its end
RECURSIVE CollectHits(_, _, _)
CollectHits(scores, top, ids) ==
    IF top = <<>> THEN [err |-> "", results |-> <<>>]
    ELSE IF scores[Head(top) + 1] <= 0 THEN CollectHits(scores, Tail(top), ids)
    ELSE IF Head(top) + 1 > Len(ids) THEN [err |-> "IndexError", results |-> <<>>]
    ELSE LET rest == CollectHits(scores, Tail(top), ids)
         IN IF rest.err # "" THEN rest
            ELSE [err |-> "",
                  results |-> <<[faiss_id |-> ids[Head(top) + 1],
                                 score |-> scores[Head(top) + 1]]>> \o rest.results]

\* scores = self.index.get_scores(tokenized_query)
GetScores(index, query) ==
    [i \in 1..Len(index.corpus) |-> ScoreOf(index.corpus, i, Tokenize(query))]

\* BM25Store.search run on index object `index` with faiss_ids list `ids`
BM25SearchOutcome(index, ids, query, top_k) ==
    IF ~index.some THEN [err |-> "", results |-> <<>>]
    ELSE CollectHits(GetScores(index, query),
                     TopIndices(GetScores(index, query), top_k), ids)

\* no file at bm25_index_path
NoPickle == [kind |-> "none", index |-> NoBM25, faiss_ids |-> <<>>]

\* a file cut short by a stopped writer: pickle.load raises on it
CorruptPickle == [kind |-> "corrupt", index |-> NoBM25, faiss_ids |-> <<>>]

\* pickle.dump({"index": self.index, "faiss_ids": self.faiss_ids}, f)
PickleDump(index, ids) == [kind |-> "pickle", index |-> index, faiss_ids |-> ids]

\* BM25Store.load: what it leaves in the store; logged is the message of the
\* exception it caught and printed ("" when none)
BM25LoadOutcome(index, ids, file) ==
    IF file.kind = "none" THEN [logged |-> "", index |-> index, faiss_ids |-> ids]
    ELSE IF file.kind = "corrupt"
    THEN [logged |-> "UnpicklingError", index |-> index, faiss_ids |-> ids]
    ELSE [logged |-> "", index |-> file.index, faiss_ids |-> file.faiss_ids]

\* ------------------------------------------------------------------------
\* hybrid_search (backend/retrieval/hybrid.py)
\* ------------------------------------------------------------------------
\* documents.title of the chunk rows, by faiss_id: "ABC", "Cab abc", "x yz", ""
TitleRows ==
    << [faiss_id |-> 0, title |-> <<"A", "B", "C">>],
       [faiss_id |-> 1, title |-> <<"C", "a", "b", " ", "a", "b", "c">>],
       [faiss_id |-> 2, title |-> <<"x", " ", "y", "z">>],
       [faiss_id |-> 3, title |-> <<>>] >>

\* titles_map.get(fid, "") over get_chunk_titles: the title joined to the
\* chunk row of fid, "" when the table holds no such row
TitleOf(fid) ==
    IF \E i \in 1..Len(TitleRows) : TitleRows[i].faiss_id = fid
    THEN TitleRows[CHOOSE i \in 1..Len(TitleRows) : TitleRows[i].faiss_id = fid].title
    ELSE <<>>

\* the characters \w matches, of the characters in use
WordChars == {"a", "b", "c", "x", "y", "z", "A", "B", "C", "X"}

\* re.findall(r'\w+', text): the maximal runs of word characters
RECURSIVE FindWordsFrom(_, _, _)
FindWordsFrom(text, i, word) ==
    IF i > Len(text) THEN (IF word = <<>> THEN <<>> ELSE <<word>>)
    ELSE IF text[i] \notin WordChars
    THEN (IF word = <<>> THEN <<>> ELSE <<word>>) \o FindWordsFrom(text, i + 1, <<>>)
    ELSE FindWordsFrom(text, i + 1, Append(word, text[i]))

FindWords(text) == FindWordsFrom(text, 1, <<>>)

\* [w.lower() for w in re.findall(r'\w+', query) if len(w) > 2]
RECURSIVE KeepLong(_)
KeepLong(words) ==
    IF words = <<>> THEN <<>>
    ELSE (IF Len(Head(words)) > MinKeywordLen THEN <<Lower(Head(words))>> ELSE <<>>)
             \o KeepLong(Tail(words))

\* keywords cut at whitespace only: query.split() in place of the regex
KeywordsBySpaces(query) == KeepLong(Split(query))

Keywords(query) == KeepLong(FindWords(query))

\* kw in title
Contains(title, kw) ==
    \E i \in 1..(Len(title) - Len(kw) + 1) : SubSeq(title, i, i + Len(kw) - 1) = kw

\* any(kw in title for kw in keywords), title lowercased
TitleMatches(fid, keywords) ==
    \E n \in 1..Len(keywords) : Contains(Lower(TitleOf(fid)), keywords[n])

RECURSIVE Gcd(_, _)
Gcd(a, b) == IF b = 0 THEN a ELSE Gcd(b, a % b)

\* fused scores are counted in units of 1 / RRFUnits, the least common
\* multiple of k + rank over the ranks a result list can reach
RECURSIVE LcmUpTo(_)
LcmUpTo(rank) ==
    IF rank = 0 THEN 1
    ELSE (LcmUpTo(rank - 1) \div Gcd(LcmUpTo(rank - 1), rrf_k + rank)) * (rrf_k + rank)

MaxRank == IF MaxVectors > MaxChunks THEN MaxVectors ELSE MaxChunks

RRFUnits == LcmUpTo(MaxRank)

\* ranks counted from 0: 1.0 / (k + rank - 1)
ReciprocalFromZero(rank) == RRFUnits \div (rrf_k + rank - 1)

\* 1.0 / (rrf_k + rank)
Reciprocal(rank) == RRFUnits \div (rrf_k + rank)

\* the accumulation forgetting what the fid had: scores[fid] = 1.0 / (k + rank)
AccumulateOverwrite(scores, fid, rank) ==
    IF \E i \in 1..Len(scores) : scores[i].faiss_id = fid
    THEN [i \in 1..Len(scores) |->
             IF scores[i].faiss_id = fid
             THEN [scores[i] EXCEPT !.score = Reciprocal(rank)]
             ELSE scores[i]]
    ELSE Append(scores, [faiss_id |-> fid, score |-> Reciprocal(rank)])

\* scores[fid] = scores.get(fid, 0) + 1.0 / (rrf_k + rank) on a dict kept as the
\* sequence of its items in insertion order
Accumulate(scores, fid, rank) ==
    IF \E i \in 1..Len(scores) : scores[i].faiss_id = fid
    THEN [i \in 1..Len(scores) |->
             IF scores[i].faiss_id = fid
             THEN [scores[i] EXCEPT !.score = @ + Reciprocal(rank)]
             ELSE scores[i]]
    ELSE Append(scores, [faiss_id |-> fid, score |-> Reciprocal(rank)])

\* for rank, res in enumerate(results, start=1): ...
RECURSIVE FuseFrom(_, _, _)
FuseFrom(scores, results, rank) ==
    IF rank > Len(results) THEN scores
    ELSE FuseFrom(Accumulate(scores, results[rank].faiss_id, rank), results, rank + 1)

\* the two loops: the vector list first, then the lexical list
Fuse(v_results, b_results) == FuseFrom(FuseFrom(<<>>, v_results, 1), b_results, 1)

\* number of keywords the title of fid holds
RECURSIVE MatchCount(_, _)
MatchCount(fid, keywords) ==
    IF keywords = <<>> THEN 0
    ELSE (IF Contains(Lower(TitleOf(fid)), Head(keywords)) THEN 1 ELSE 0)
             + MatchCount(fid, Tail(keywords))

\* the boost applied once per keyword the title holds
RECURSIVE BoostTimes(_, _)
BoostTimes(score, n) == IF n = 0 THEN score ELSE BoostTimes(score * TitleBoost, n - 1)

BoostPerKeyword(scores, query) ==
    [i \in 1..Len(scores) |->
        [scores[i] EXCEPT
            !.score = BoostTimes(@, MatchCount(scores[i].faiss_id, Keywords(query)))]]

\* the title boost: every item whose title holds a keyword is multiplied once
Boost(scores, query) ==
    [i \in 1..Len(scores) |->
        IF TitleMatches(scores[i].faiss_id, Keywords(query))
        THEN [scores[i] EXCEPT !.score = @ * TitleBoost]
        ELSE scores[i]]

\* sorted(..., key=score, reverse=True): stable, items of equal score keep
\* their order
SortedBefore(items, i, j) ==
    items[i].score > items[j].score \/ (items[i].score = items[j].score /\ i < j)

SortedNth(items, r) ==
    CHOOSE i \in 1..Len(items) :
        Cardinality({j \in 1..Len(items) : SortedBefore(items, j, i)}) = r - 1

\* the first top_k items in insertion order, not sorted
RankedUnsorted(scores, top_k) ==
    [r \in 1..Min(top_k, Len(scores)) |-> scores[r]]

\* sorted(scores.items(), ...)[:top_k] as the final result list
Ranked(scores, top_k) ==
    [r \in 1..Min(top_k, Len(scores)) |-> scores[SortedNth(scores, r)]]

\* the else branch after both searches returned
HybridRanking(v_results, b_results, query, top_k) ==
    Ranked(Boost(Fuse(v_results, b_results), query), top_k)

\* search_mode values the if/elif chain names, and the others in use
EmbeddingModesWithBM25 == {"vector", "hybrid", "bm25"}

EmbeddingModes == {"vector", "hybrid"}
SearchModes == {"vector", "bm25", "hybrid", "lexical", "invalid_mode"}

\* hybrid_search on the stores as they stand. embedding is what embed_query
\* returns for this query when it is called; an exception of a search leaves
\* the function at once. The score of a result is an inner product in vector
\* mode, a BM25 score in bm25 mode and a fused score in units otherwise.
\* the number of candidates hybrid mode asks of each index
PoolOfTopK(top_k) == top_k

Pool(top_k) == top_k * PoolFactor

\* the modes whose call leaves the lexical index alone
LexicalFreeModesNone == {}

LexicalFreeModes == {"vector"}

RetrieveOutcome(vindex, bindex, bids, query, embedding, top_k, search_mode) ==
    LET query_vector == IF search_mode \in EmbeddingModes THEN embedding ELSE NoVector
        embeds == IF search_mode \in EmbeddingModes THEN 1 ELSE 0
        pool == Pool(top_k)
        made == [embeds |-> embeds, qv |-> query_vector, v_calls |-> <<>>,
                 b_calls |-> <<>>, title_calls |-> 0]
    IN  IF search_mode \in LexicalFreeModes
        THEN [made EXCEPT !.v_calls = <<top_k>>]
                 @@ SearchOutcome(vindex, query_vector, top_k)
        ELSE IF search_mode = "bm25"
        THEN [made EXCEPT !.b_calls = <<top_k>>]
                 @@ BM25SearchOutcome(bindex, bids, query, top_k)
        ELSE LET v == SearchOutcome(vindex, query_vector, pool)
                 b == BM25SearchOutcome(bindex, bids, query, pool)
             IN  IF v.err # ""
                 THEN [made EXCEPT !.v_calls = <<pool>>]
                          @@ [err |-> v.err, results |-> <<>>]
                 ELSE IF b.err # ""
                 THEN [made EXCEPT !.v_calls = <<pool>>, !.b_calls = <<pool>>]
                          @@ [err |-> b.err, results |-> <<>>]
                 ELSE [made EXCEPT !.v_calls = <<pool>>, !.b_calls = <<pool>>,
                                   !.title_calls =
                                       IF v.results = <<>> /\ b.results = <<>>
                                       THEN 0 ELSE 1]
                          @@ [err |-> "",
                              results |-> HybridRanking(v.results, b.results, query, top_k)]

\* ------------------------------------------------------------------------
\* The clock of hybrid_search
\* ------------------------------------------------------------------------
\* time.perf_counter is read four times in a call (twice around the
\* embedding, twice around the retrieval); a reading is a count of ticks of
\* 1/TicksPerSecond seconds and never goes back
RECURSIVE Readings(_, _)
Readings(n, from) ==
    IF n = 0 THEN {<<>>}
    ELSE UNION {{<<t>> \o rest : rest \in Readings(n - 1, t)} : t \in from..MaxTicks}

ClockRuns == Readings(4, 0)

\* a call too short for the clock to move
InstantClock == [i \in 1..4 |-> 0]

\* int(x): the integer part of a quotient, cut toward zero
IntOfQuotient(num, den) ==
    IF num >= 0 THEN num \div den ELSE 0 - ((0 - num) \div den)

\* int((time.perf_counter() - t0) * 1000) for the readings t0 and t1
ElapsedMsFromStart(t0, t1) == IntOfQuotient((t0 - t1) * 1000, TicksPerSecond)

ElapsedMs(t0, t1) == IntOfQuotient((t1 - t0) * 1000, TicksPerSecond)

\* metrics of a call that read the clock as the run says
MetricsOf(search_mode, clock) ==
    [embed_ms |-> IF search_mode \in EmbeddingModes
                  THEN ElapsedMs(clock[1], clock[2]) ELSE 0,
     retrieval_ms |-> ElapsedMs(clock[3], clock[4])]

\* ------------------------------------------------------------------------
\* What a call reports
\* ------------------------------------------------------------------------
Blank ==
    [op |-> "none", proc |-> "", err |-> "", logged |-> "", n |-> 0, ids |-> <<>>,
     qv |-> <<>>, query |-> <<>>, top_k |-> 0, mode |-> "", results |-> <<>>,
     v_calls |-> <<>>, b_calls |-> <<>>, title_calls |-> 0,
     clock |-> <<>>, embed_ms |-> 0, retrieval_ms |-> 0,
     status |-> 0, latency_ms |-> 0, rows |-> 0]

\* the chunker between calls
NoCall ==
    [pc |-> "idle", fn |-> "", total_tokens |-> 0, chunk_size |-> 0, overlap |-> 0,
     start |-> 0, chunk_index |-> 0, chunks |-> <<>>]

\* ------------------------------------------------------------------------
\* Actions of the vector store
\* ------------------------------------------------------------------------
load_or_create(p) ==
    LET r == LoadOutcome(vs_index[p], vs_next_id[p], faiss_file) IN
    /\ vs_index' = [vs_index EXCEPT ![p] = r.index]
    /\ vs_next_id' = [vs_next_id EXCEPT ![p] = r.next_id]
    /\ out' = [Blank EXCEPT !.op = "load_or_create", !.proc = p, !.err = r.err]
    /\ UNCHANGED <<faiss_file, lexVars>>
    /\ UNCHANGED <<db_chunks, query_logs, chunker>>

add_embeddings(p, batch) ==
    LET r == AddOutcome(vs_index[p], vs_next_id[p], batch) IN
    /\ ntotal(vs_index[p]) + Len(batch) <= MaxVectors
    /\ vs_index' = [vs_index EXCEPT ![p] = r.index]
    /\ vs_next_id' = [vs_next_id EXCEPT ![p] = r.next_id]
    /\ out' = [Blank EXCEPT !.op = "add_embeddings", !.proc = p, !.err = r.err,
                            !.n = Len(batch), !.ids = r.ids]
    /\ UNCHANGED <<faiss_file, lexVars>>
    /\ UNCHANGED <<db_chunks, query_logs, chunker>>

save(p) ==
    /\ faiss_file' = SaveOutcome(vs_index[p], faiss_file)
    /\ out' = [Blank EXCEPT !.op = "save", !.proc = p]
    /\ UNCHANGED <<vs_index, vs_next_id, lexVars>>
    /\ UNCHANGED <<db_chunks, query_logs, chunker>>

search_by_vector(p, qv, k) ==
    LET r == SearchOutcome(vs_index[p], qv, k) IN
    /\ out' = [Blank EXCEPT !.op = "search_by_vector", !.proc = p, !.err = r.err,
                            !.qv = qv, !.top_k = k, !.results = r.results]
    /\ UNCHANGED <<vecVars, lexVars>>
    /\ UNCHANGED <<db_chunks, query_logs, chunker>>

\* the thread running build_index returns (or dies with its process)
BuilderReturns == b_pc' = "idle" /\ b_chunks' = <<>>

\* the thread running BM25Store.search returns (or dies with its process)
SearcherReturns == s_pc' = "idle" /\ s_query' = <<>> /\ s_top_k' = 0 /\ s_index' = NoBM25

\* the process ends and a new one imports the modules:
\* vector_store = VectorStore(); in the server also bm25_store = BM25Store()
\* followed by bm25_store.load()
Restart(p) ==
    /\ vs_index' = [vs_index EXCEPT ![p] = FreshStore.index]
    /\ vs_next_id' = [vs_next_id EXCEPT ![p] = FreshStore.next_id]
    /\ IF p = "server"
       THEN /\ bm_index' = BM25LoadOutcome(NoBM25, <<>>, bm25_file).index
            /\ bm_faiss_ids' = BM25LoadOutcome(NoBM25, <<>>, bm25_file).faiss_ids
            /\ BuilderReturns
            /\ SearcherReturns
       ELSE UNCHANGED <<bm_index, bm_faiss_ids, b_pc, b_chunks,
                        s_pc, s_query, s_top_k, s_index>>
    /\ out' = [Blank EXCEPT !.op = "restart", !.proc = p]
    /\ UNCHANGED <<faiss_file, bm25_file>>
    /\ UNCHANGED <<db_chunks, query_logs, chunker>>

\* the process is stopped inside faiss.write_index: the file is left cut short
StopInSave(p) ==
    /\ vs_index[p].some /\ ntotal(vs_index[p]) > 0
    /\ b_pc = "idle" /\ s_pc = "idle"
    /\ faiss_file' = CorruptFile
    /\ vs_index' = [vs_index EXCEPT ![p] = FreshStore.index]
    /\ vs_next_id' = [vs_next_id EXCEPT ![p] = FreshStore.next_id]
    /\ IF p = "server"
       THEN /\ bm_index' = BM25LoadOutcome(NoBM25, <<>>, bm25_file).index
            /\ bm_faiss_ids' = BM25LoadOutcome(NoBM25, <<>>, bm25_file).faiss_ids
       ELSE UNCHANGED <<bm_index, bm_faiss_ids>>
    /\ out' = [Blank EXCEPT !.op = "stopped", !.proc = p]
    /\ UNCHANGED <<bm25_file, b_pc, b_chunks, s_pc, s_query, s_top_k, s_index>>
    /\ UNCHANGED <<db_chunks, query_logs, chunker>>

\* ------------------------------------------------------------------------
\* Actions of the lexical store (the server's bm25_store)
\* ------------------------------------------------------------------------
\* build_index on an empty list emptying the store
BuildStartClearing(index, ids, chunks) ==
    IF chunks = <<>>
    THEN [returned |-> TRUE, index |-> NoBM25, faiss_ids |-> <<>>]
    ELSE [returned |-> FALSE, index |-> index,
          faiss_ids |-> [i \in 1..Len(chunks) |-> chunks[i].faiss_id]]

\* build_index up to `self.faiss_ids = ...`: the `if not chunks` return,
\* else the new fid list (the index is not touched yet)
BuildStart(index, ids, chunks) ==
    IF chunks = <<>>
    THEN [returned |-> TRUE, index |-> index, faiss_ids |-> ids]
    ELSE [returned |-> FALSE, index |-> index,
          faiss_ids |-> [i \in 1..Len(chunks) |-> chunks[i].faiss_id]]

build_index_begin(chunks) ==
    /\ b_pc = "idle"
    /\ \E r \in {BuildStart(bm_index, bm_faiss_ids, chunks)} :
          /\ bm_index' = r.index
          /\ bm_faiss_ids' = r.faiss_ids
          /\ IF r.returned
             THEN /\ out' = [Blank EXCEPT !.op = "build_index", !.n = 0]
                  /\ UNCHANGED <<b_pc, b_chunks>>
             ELSE /\ out' = [Blank EXCEPT !.op = "build_index_begin"]
                  /\ b_pc' = "ids_assigned"
                  /\ b_chunks' = chunks
    /\ UNCHANGED <<bm25_file, s_pc, s_query, s_top_k, s_index, vecVars>>
    /\ UNCHANGED <<db_chunks, query_logs, chunker>>

\* `self.index = BM25Okapi(corpus)`: the constructor raises or the new index
\* replaces the old one
build_index_construct ==
    /\ b_pc = "ids_assigned"
    /\ LET corpus == [i \in 1..Len(b_chunks) |-> Tokenize(b_chunks[i].text)]
           ids == [i \in 1..Len(b_chunks) |-> b_chunks[i].faiss_id]
       IN IF BM25OkapiRaises(corpus)
          THEN /\ BuilderReturns
               /\ out' = [Blank EXCEPT !.op = "build_index", !.n = Len(b_chunks),
                                       !.err = "ZeroDivisionError"]
               /\ UNCHANGED bm_index
          ELSE /\ bm_index' = BM25Okapi(corpus, ids)
               /\ b_pc' = "index_assigned"
               /\ out' = [Blank EXCEPT !.op = "build_index_construct"]
               /\ UNCHANGED b_chunks
    /\ UNCHANGED <<bm_faiss_ids, bm25_file, s_pc, s_query, s_top_k, s_index, vecVars>>
    /\ UNCHANGED <<db_chunks, query_logs, chunker>>

\* the `self.save()` that ends build_index
build_index_save ==
    /\ b_pc = "index_assigned"
    /\ bm25_file' = PickleDump(bm_index, bm_faiss_ids)
    /\ out' = [Blank EXCEPT !.op = "build_index", !.n = Len(b_chunks)]
    /\ BuilderReturns
    /\ UNCHANGED <<bm_index, bm_faiss_ids, s_pc, s_query, s_top_k, s_index, vecVars>>
    /\ UNCHANGED <<db_chunks, query_logs, chunker>>

\* BM25Store.search up to top_indices: the `if not self.index` return, the
\* scores of the index object it reads
bm25_search_begin(query, top_k) ==
    /\ s_pc = "idle"
    /\ IF ~bm_index.some
       THEN /\ out' = [Blank EXCEPT !.op = "bm25_search", !.query = query,
                                    !.top_k = top_k]
            /\ UNCHANGED <<s_pc, s_query, s_top_k, s_index>>
       ELSE /\ s_pc' = "scored" /\ s_query' = query /\ s_top_k' = top_k /\ s_index' = bm_index
            /\ out' = [Blank EXCEPT !.op = "bm25_search_begin"]
    /\ UNCHANGED <<bm_index, bm_faiss_ids, bm25_file, b_pc, b_chunks, vecVars>>
    /\ UNCHANGED <<db_chunks, query_logs, chunker>>

\* the result loop of BM25Store.search, reading self.faiss_ids as it is now
bm25_search_end ==
    /\ s_pc = "scored"
    /\ \E r \in {BM25SearchOutcome(s_index, bm_faiss_ids, s_query, s_top_k)} :
           out' = [Blank EXCEPT !.op = "bm25_search", !.query = s_query,
                                !.top_k = s_top_k, !.err = r.err,
                                !.results = r.results]
    /\ SearcherReturns
    /\ UNCHANGED <<bm_index, bm_faiss_ids, bm25_file, b_pc, b_chunks, vecVars>>
    /\ UNCHANGED <<db_chunks, query_logs, chunker>>

\* BM25Store.save called on its own (writers run one at a time: no build
\* is under way)
bm25_save ==
    /\ b_pc = "idle"
    /\ bm25_file' = PickleDump(bm_index, bm_faiss_ids)
    /\ out' = [Blank EXCEPT !.op = "bm25_save"]
    /\ UNCHANGED <<bm_index, bm_faiss_ids, b_pc, b_chunks,
                   s_pc, s_query, s_top_k, s_index, vecVars>>
    /\ UNCHANGED <<db_chunks, query_logs, chunker>>

\* the server is stopped inside the save of build_index, between
\* open(path, "wb") and the end of pickle.dump: the file is left cut short.
\* The next server process imports the module, and its bm25_store.load()
\* catches the error of that file: the new store is empty.
StopInBM25Save ==
    /\ b_pc = "index_assigned"
    /\ bm25_file' = CorruptPickle
    /\ bm_index' = NoBM25
    /\ bm_faiss_ids' = <<>>
    /\ BuilderReturns
    /\ SearcherReturns
    /\ vs_index' = [vs_index EXCEPT !["server"] = FreshStore.index]
    /\ vs_next_id' = [vs_next_id EXCEPT !["server"] = FreshStore.next_id]
    /\ out' = [Blank EXCEPT !.op = "stopped", !.proc = "server"]
    /\ UNCHANGED faiss_file
    /\ UNCHANGED <<db_chunks, query_logs, chunker>>

\* BM25Store.load
bm25_load ==
    /\ b_pc = "idle"
    /\ \E r \in {BM25LoadOutcome(bm_index, bm_faiss_ids, bm25_file)} :
          /\ bm_index' = r.index
          /\ bm_faiss_ids' = r.faiss_ids
          /\ out' = [Blank EXCEPT !.op = "bm25_load", !.logged = r.logged]
    /\ UNCHANGED <<bm25_file, b_pc, b_chunks, s_pc, s_query, s_top_k, s_index, vecVars>>
    /\ UNCHANGED <<db_chunks, query_logs, chunker>>

\* ------------------------------------------------------------------------
\* Retrieval over the stores of the serving process
\* ------------------------------------------------------------------------
\* build_index run from its first line to its return on a store holding
\* (index, ids) with `file` at bm25_index_path: what it leaves behind
BuildOutcome(index, ids, file, chunks) ==
    LET r == BuildStart(index, ids, chunks)
        corpus == [i \in 1..Len(chunks) |-> Tokenize(chunks[i].text)]
    IN  IF r.returned
        THEN [err |-> "", index |-> r.index, faiss_ids |-> r.faiss_ids, file |-> file]
        ELSE IF BM25OkapiRaises(corpus)
        THEN [err |-> "ZeroDivisionError", index |-> r.index,
              faiss_ids |-> r.faiss_ids, file |-> file]
        ELSE [err |-> "", index |-> BM25Okapi(corpus, r.faiss_ids),
              faiss_ids |-> r.faiss_ids,
              file |-> PickleDump(BM25Okapi(corpus, r.faiss_ids), r.faiss_ids)]

\* the lexical store of a server after up to two build_index calls
\* (the empty list leaves a store as it was)
BuiltOnce == {BuildOutcome(NoBM25, <<>>, NoPickle, chunks) : chunks \in ChunkLists}

BuiltTwice ==
    {BuildOutcome(st.index, st.faiss_ids, st.file, chunks) :
        st \in BuiltOnce, chunks \in ChunkLists}

\* the index file an ingestion run leaves: load_or_create on no file, one
\* add_embeddings of rows of the configured width, save
IngestedFiles ==
    {SaveOutcome(AddOutcome(LoadOutcome(NoIndex, 0, NoFile).index, 0, batch).index, NoFile) :
        batch \in {b \in Batches : \A i \in 1..Len(b) : b[i] \in Vectors}}

\* what embed_query can return: a row of the model's width
Embeddings == Vectors \cup WideVectors

\* a server process that imported the stores; its lifespan may or may not
\* have run load_or_create (a caller of hybrid_search need not start the app)
InitRetrieve ==
    /\ \E file \in IngestedFiles, started \in BOOLEAN :
          /\ faiss_file = file
          /\ vs_index = [p \in Procs |->
                IF p = "server" /\ started
                THEN LoadOutcome(NoIndex, 0, file).index ELSE FreshStore.index]
          /\ vs_next_id = [p \in Procs |->
                IF p = "server" /\ started
                THEN LoadOutcome(NoIndex, 0, file).next_id ELSE FreshStore.next_id]
    /\ \E st \in BuiltOnce \cup BuiltTwice :
          /\ bm_index = st.index
          /\ bm_faiss_ids = st.faiss_ids
          /\ bm25_file = st.file
    /\ b_pc = "idle" /\ b_chunks = <<>>
    /\ s_pc = "idle" /\ s_query = <<>> /\ s_top_k = 0 /\ s_index = NoBM25
    /\ db_chunks = [i \in 1..Len(ChunkRows) |-> ChunkRows[i].faiss_id]
    /\ query_logs = <<>>
    /\ chunker = NoCall
    /\ out = Blank

\* hybrid_search(query, top_k, search_mode) on the server's two stores,
\* called by a caller that has taken the answer of its last call; clocks are
\* the runs of time.perf_counter the call may meet
hybrid_search(query, top_k, search_mode, embedding, clocks) ==
    /\ b_pc = "idle" /\ s_pc = "idle"
    /\ out.op # "hybrid_search"
    /\ \E r \in {RetrieveOutcome(vs_index["server"], bm_index, bm_faiss_ids,
                                 query, embedding, top_k, search_mode)} :
       \E clock \in clocks :
       \E m \in {MetricsOf(search_mode, clock)} :
          out' = [Blank EXCEPT !.op = "hybrid_search", !.proc = "server",
                               !.query = query, !.top_k = top_k, !.mode = search_mode,
                               !.qv = r.qv, !.n = r.embeds, !.err = r.err,
                               !.results = r.results,
                               !.v_calls = r.v_calls, !.b_calls = r.b_calls,
                               !.title_calls = r.title_calls,
                               !.clock = clock,
                               !.embed_ms = IF r.err = "" THEN m.embed_ms ELSE 0,
                               !.retrieval_ms = IF r.err = "" THEN m.retrieval_ms ELSE 0]
    /\ UNCHANGED <<vecVars, lexVars>>
    /\ UNCHANGED <<db_chunks, query_logs, chunker>>

\* the caller takes the answer (or the exception) of hybrid_search
TakeAnswer ==
    /\ out.op = "hybrid_search"
    /\ out' = Blank
    /\ UNCHANGED <<vecVars, lexVars>>
    /\ UNCHANGED <<db_chunks, query_logs, chunker>>

NextRetrieve ==
    \/ \E query \in Queries, top_k \in TopKs, search_mode \in SearchModes,
          embedding \in Embeddings :
           hybrid_search(query, top_k, search_mode, embedding, {InstantClock})
    \/ TakeAnswer

SpecRetrieve == InitRetrieve /\ [][NextRetrieve]_vars

\* calls of a started server over one ingested fragment's vector and a
\* built lexical index with its snapshot, timed by every run of the clock
InitTiming ==
    /\ InitRetrieve
    /\ vs_index["server"].some
    /\ ntotal(vs_index["server"]) = 1
    /\ bm_index.some
    /\ bm25_file = PickleDump(bm_index, bm_faiss_ids)

NextTiming ==
    \/ \E query \in Queries, top_k \in TopKs, search_mode \in SearchModes,
          embedding \in Embeddings :
           hybrid_search(query, top_k, search_mode, embedding, ClockRuns)
    \/ TakeAnswer

SpecTiming == InitTiming /\ [][NextTiming]_vars

Init ==
    /\ vs_index = [p \in Procs |-> FreshStore.index]
    /\ vs_next_id = [p \in Procs |-> FreshStore.next_id]
    /\ faiss_file = NoFile
    /\ bm_index = NoBM25
    /\ bm_faiss_ids = <<>>
    /\ bm25_file = NoPickle
    /\ b_pc = "idle" /\ b_chunks = <<>>
    /\ s_pc = "idle" /\ s_query = <<>> /\ s_top_k = 0 /\ s_index = NoBM25
    /\ db_chunks = <<>>
    /\ query_logs = <<>>
    /\ chunker = NoCall
    /\ out = Blank

\* ------------------------------------------------------------------------
\* Ingestion (scripts/ingest_docs.py) and a build from the chunks table
\* ------------------------------------------------------------------------
\* the insert_chunk calls of one document, each committed on its own: the
\* UNIQUE constraint on chunks.faiss_id raises IntegrityError on a fid the
\* table holds, after the rows before it went in
RECURSIVE InsertOutcome(_, _)
InsertOutcome(db, ids) ==
    IF ids = <<>> THEN [err |-> "", db |-> db]
    ELSE IF \E i \in 1..Len(db) : db[i] = Head(ids)
    THEN [err |-> "IntegrityError", db |-> db]
    ELSE InsertOutcome(Append(db, Head(ids)), Tail(ids))

\* get_all_chunks: SELECT faiss_id, text FROM chunks
GetAllChunks(db) == [i \in 1..Len(db) |-> ChunkRows[db[i] + 1]]

\* one round of the loop of ingest over the chunks of a document:
\* add_embeddings, then insert_chunk per chunk, in a run that has called
\* load_or_create and embeds with the model of the configured width. An
\* exception ends the script, and with it the ingest process and the vectors
\* it had not saved.
ingest_document(batch) ==
    /\ vs_index["ingest"].some
    /\ batch # <<>>
    /\ \A i \in 1..Len(batch) : batch[i] \in Vectors
    /\ ntotal(vs_index["ingest"]) + Len(batch) <= MaxVectors
    /\ \E a \in {AddOutcome(vs_index["ingest"], vs_next_id["ingest"], batch)} :
       \E r \in {InsertOutcome(db_chunks, a.ids)} :
          /\ db_chunks' = r.db
          /\ IF a.err # "" \/ r.err # ""
             THEN /\ vs_index' = [vs_index EXCEPT !["ingest"] = FreshStore.index]
                  /\ vs_next_id' = [vs_next_id EXCEPT !["ingest"] = FreshStore.next_id]
                  /\ out' = [Blank EXCEPT !.op = "ingest_document", !.proc = "ingest",
                                          !.n = Len(batch),
                                          !.err = IF a.err # "" THEN a.err ELSE r.err]
             ELSE /\ vs_index' = [vs_index EXCEPT !["ingest"] = a.index]
                  /\ vs_next_id' = [vs_next_id EXCEPT !["ingest"] = a.next_id]
                  /\ out' = [Blank EXCEPT !.op = "ingest_document", !.proc = "ingest",
                                          !.n = Len(batch), !.ids = a.ids]
    /\ UNCHANGED <<faiss_file, lexVars, query_logs, chunker>>

\* build_index(get_all_chunks()) up to the assignment of faiss_ids
build_index_from_table == build_index_begin(GetAllChunks(db_chunks))

\* ingestion runs (load_or_create, rounds, save) and server runs
\* (load_or_create at startup, save at shutdown) over the shared files and
\* table, with builds of the lexical index from the table
NextIngest ==
    \/ \E p \in Procs : load_or_create(p)
    \/ \E batch \in Batches : ingest_document(batch)
    \/ \E p \in Procs : save(p)
    \/ \E p \in Procs : Restart(p)
    \/ build_index_from_table
    \/ build_index_construct
    \/ build_index_save

SpecIngest == Init /\ [][NextIngest]_vars

\* ------------------------------------------------------------------------
\* POST /query (api/routes.py)
\* ------------------------------------------------------------------------
FidSeqOf(results) == [i \in 1..Len(results) |-> results[i].faiss_id]

\* request.query.strip() is empty
IsBlank(query) == \A i \in 1..Len(query) : query[i] = " "

BlankQuery == <<" ">>

\* request.min_score: the default 0.0, and a threshold above every score
NoScorePasses == 2147483647

MinScores == {0, NoScorePasses}

\* [r for r in search_results if r["score"] >= request.min_score]
Filtered(results, min_score) ==
    SelectSeq(results, LAMBDA r : r.score >= min_score)

\* the fids of a list that have a row in the chunks table, in list order
\* (get_chunks_by_faiss_ids, re-sorted by the order of faiss_ids)
ChunksOf(db, results) ==
    SelectSeq(FidSeqOf(results), LAMBDA fid : \E i \in 1..Len(db) : db[i] = fid)

\* the eight readings of time.perf_counter in a request that runs to the
\* end: wall_start, the four of hybrid_search, llm_start, the end of the
\* model call and the one of total_latency_ms (in the early return the sixth
\* is the one of latency_ms)
RequestClockRuns == Readings(8, 0)

\* what generate_answer does: it returns an answer or raises
LLMOutcomes == {"answer", "raise"}

\* the handler on a request: the status it answers with, the row it gives to
\* insert_query_log (rows = 0: none) and the latency it reports
QueryOutcome(next_id, r, query, min_score, db, llm, clock) ==
    LET none == [status |-> 0, rows |-> 0, latency_ms |-> 0, llm_ms |-> 0,
                 filtered |-> <<>>]
        filtered == Filtered(r.results, min_score)
    IN  IF IsBlank(query) THEN [none EXCEPT !.status = 400]
        ELSE IF next_id = 0 THEN [none EXCEPT !.status = 503]
        ELSE IF r.err # "" THEN [none EXCEPT !.status = 500]
        ELSE IF filtered = <<>>
        THEN [none EXCEPT !.status = 200,
                          !.latency_ms = ElapsedMs(clock[1], clock[6])]
        ELSE IF ChunksOf(db, filtered) = <<>>
        THEN [none EXCEPT !.status = 500, !.filtered = filtered]
        ELSE IF llm = "raise"
        THEN [none EXCEPT !.status = 500, !.filtered = filtered]
        ELSE [none EXCEPT !.status = 200, !.rows = 1, !.filtered = filtered,
                          !.llm_ms = ElapsedMs(clock[6], clock[7]),
                          !.latency_ms = ElapsedMs(clock[1], clock[8])]

\* query_documents(request) on the server
query_documents(query, top_k, min_score, search_mode, embedding, llm) ==
    /\ b_pc = "idle" /\ s_pc = "idle"
    /\ out.op # "query_documents"
    /\ Len(query_logs) < MaxLogs
    /\ \E r \in {RetrieveOutcome(vs_index["server"], bm_index, bm_faiss_ids,
                                 query, embedding, top_k, search_mode)} :
       \E t \in {[m |-> MetricsOf(search_mode, SubSeq(clock, 2, 5)),
                  q |-> QueryOutcome(vs_next_id["server"], r, query, min_score,
                                     db_chunks, llm, clock)] :
                    clock \in RequestClockRuns} :
       \E m \in {t.m}, q \in {t.q} :
          /\ query_logs' =
                IF q.rows = 0 THEN query_logs
                ELSE Append(query_logs,
                            [query |-> query, latency_ms |-> q.latency_ms,
                             embed_ms |-> m.embed_ms,
                             retrieval_ms |-> m.retrieval_ms,
                             llm_ms |-> q.llm_ms])
          /\ out' = [Blank EXCEPT !.op = "query_documents", !.proc = "server",
                                  !.query = query, !.top_k = top_k,
                                  !.mode = search_mode, !.status = q.status,
                                  !.results = q.filtered, !.rows = q.rows,
                                  !.latency_ms = q.latency_ms]
    /\ UNCHANGED <<vecVars, lexVars, db_chunks, chunker>>

\* the client takes the response
TakeResponse ==
    /\ out.op = "query_documents"
    /\ out' = Blank
    /\ UNCHANGED <<vecVars, lexVars, db_chunks, query_logs, chunker>>

\* a server, started or not, over one ingested fragment's vector and a built
\* lexical index with its snapshot
InitQuery ==
    /\ InitRetrieve
    /\ faiss_file.ntotal = 1
    /\ bm_index.some
    /\ bm25_file = PickleDump(bm_index, bm_faiss_ids)

NextQuery ==
    \/ \E query \in Queries \cup {BlankQuery}, top_k \in TopKs,
          min_score \in MinScores, search_mode \in SearchModes,
          embedding \in Embeddings, llm \in LLMOutcomes :
           query_documents(query, top_k, min_score, search_mode, embedding, llm)
    \/ TakeResponse

SpecQuery == InitQuery /\ [][NextQuery]_vars

\* ------------------------------------------------------------------------
\* The chunker (ingestion/chunker.py)
\* ------------------------------------------------------------------------
\* iterations after which a loop that has not left is known never to leave:
\* a window that advances needs at most one iteration per token
MaxIterations == MaxTokens + 2

Max(a, b) == IF a >= b THEN a ELSE b

\* len(token_ids[start:end]) for a list of total tokens, with Python's
\* reading of negative bounds
SliceLen(total, start, end) ==
    LET from == IF start < 0 THEN Max(start + total, 0) ELSE Min(start, total)
        to == IF end < 0 THEN Max(end + total, 0) ELSE Min(end, total)
    IN  Max(to - from, 0)

\* chunk_document up to the while loop
EnterLoop(fn, total_tokens, chunk_size, overlap) ==
    [pc |-> IF 0 < total_tokens THEN "loop" ELSE "returned",
     fn |-> fn, total_tokens |-> total_tokens, chunk_size |-> chunk_size,
     overlap |-> overlap, start |-> 0, chunk_index |-> 0, chunks |-> <<>>]

\* one round of the while loop of chunk_document
Iterate(c) ==
    LET end == Min(c.start + c.chunk_size, c.total_tokens)
        chunk == [chunk_index |-> c.chunk_index,
                  token_count |-> SliceLen(c.total_tokens, c.start, end)]
        step == c.chunk_size - c.overlap
    IN  IF end = c.total_tokens
        THEN [c EXCEPT !.pc = "returned", !.chunks = Append(@, chunk)]
        ELSE [c EXCEPT !.chunks = Append(@, chunk),
                       !.start = @ + step,
                       !.chunk_index = @ + 1,
                       !.pc = IF c.start + step < c.total_tokens
                              THEN "loop" ELSE "returned"]

\* the loop run to its end, or left at "loop" when it has no end
RECURSIVE RunLoop(_, _)
RunLoop(c, rounds) ==
    IF c.pc # "loop" \/ rounds = 0 THEN c ELSE RunLoop(Iterate(c), rounds - 1)

\* chunk_document as a function of the token count of the cleaned text
ChunkDocument(total_tokens, chunk_size, overlap) ==
    RunLoop(EnterLoop("chunk_document", total_tokens, chunk_size, overlap),
            MaxIterations)

\* a block of _get_code_blocks: its token count and whether its text is
\* empty (""), only whitespace ("space") or has code ("code")
Blocks ==
    {[tokens |-> 0, text |-> ""]}
        \cup [tokens : 1..MaxTokens, text : {"space", "code"}]

\* the block lists _get_code_blocks gives: at least one block, and every
\* block after the first starts with a def/class/function line
BlockLists ==
    UNION {{bs \in [1..n -> Blocks] :
               \A i \in 2..n : bs[i].text = "code"} : n \in 1..MaxBlocks}

\* (current_text + "\n\n" + block).strip() if current_text else block
MergeText(current_text, block_text) ==
    IF current_text = "" THEN block_text
    ELSE IF current_text = "code" \/ block_text = "code" THEN "code" ELSE ""

\* sc.chunk_index = chunk_index for the sub-chunks of a split block
RenumberKeeping(sub_chunks, chunk_index) == sub_chunks

Renumber(sub_chunks, chunk_index) ==
    [i \in 1..Len(sub_chunks) |->
        [sub_chunks[i] EXCEPT !.chunk_index = chunk_index + i - 1]]

\* the for loop of chunk_code over the blocks left
RECURSIVE CodeLoop(_, _, _, _)
CodeLoop(st, blocks, chunk_size, overlap) ==
    IF blocks = <<>> \/ st.pc = "loop" THEN st
    ELSE LET block == Head(blocks)
             pending == [chunk_index |-> st.chunk_index,
                         token_count |-> st.current_tokens]
         IN  IF block.tokens > chunk_size
             THEN LET saved ==
                        IF st.current_text # ""
                        THEN [st EXCEPT !.chunks = Append(@, pending),
                                        !.chunk_index = @ + 1,
                                        !.current_text = "",
                                        !.current_tokens = 0]
                        ELSE st
                      sub == ChunkDocument(block.tokens, chunk_size, overlap)
                  IN  IF sub.pc = "loop"
                      THEN [saved EXCEPT !.pc = "loop"]
                      ELSE CodeLoop(
                              [saved EXCEPT
                                  !.chunks = @ \o Renumber(sub.chunks, saved.chunk_index),
                                  !.chunk_index = @ + Len(sub.chunks)],
                              Tail(blocks), chunk_size, overlap)
             ELSE IF st.current_tokens + block.tokens > chunk_size
             THEN CodeLoop([st EXCEPT !.chunks = Append(@, pending),
                                      !.chunk_index = @ + 1,
                                      !.current_text = block.text,
                                      !.current_tokens = block.tokens],
                           Tail(blocks), chunk_size, overlap)
             ELSE CodeLoop([st EXCEPT !.current_text = MergeText(@, block.text),
                                      !.current_tokens = @ + block.tokens],
                           Tail(blocks), chunk_size, overlap)

\* chunk_code as a function of the blocks of the file
ChunkCode(blocks, chunk_size, overlap) ==
    LET st == CodeLoop([pc |-> "for", chunks |-> <<>>, chunk_index |-> 0,
                        current_text |-> "", current_tokens |-> 0],
                       blocks, chunk_size, overlap)
    IN  IF st.pc = "loop" THEN [pc |-> "loop", chunks |-> st.chunks]
        ELSE IF st.current_text # ""
        THEN [pc |-> "returned",
              chunks |-> Append(st.chunks, [chunk_index |-> st.chunk_index,
                                            token_count |-> st.current_tokens])]
        ELSE [pc |-> "returned", chunks |-> st.chunks]

\* chunk_document(text) is called: the text is cleaned and encoded, and the
\* loop is entered
chunk_document_begin(total_tokens, chunk_size, overlap) ==
    /\ chunker.pc = "idle"
    /\ chunker' = EnterLoop("chunk_document", total_tokens, chunk_size, overlap)
    /\ out' = [Blank EXCEPT !.op = "chunk_document"]
    /\ UNCHANGED <<vecVars, lexVars, db_chunks, query_logs>>

\* one round of the while loop
chunk_document_iterate ==
    /\ chunker.pc = "loop"
    /\ chunker.fn = "chunk_document"
    /\ Len(chunker.chunks) < MaxIterations
    /\ chunker' = Iterate(chunker)
    /\ UNCHANGED <<vecVars, lexVars, db_chunks, query_logs, out>>

\* chunk_code(text, file_name): it returns, or stays in the while loop of the
\* chunk_document call it makes for a block
chunk_code(blocks, chunk_size, overlap) ==
    /\ chunker.pc = "idle"
    /\ \E r \in {ChunkCode(blocks, chunk_size, overlap)} :
          chunker' = [NoCall EXCEPT !.pc = r.pc, !.fn = "chunk_code",
                                    !.chunk_size = chunk_size, !.overlap = overlap,
                                    !.chunks = r.chunks]
    /\ out' = [Blank EXCEPT !.op = "chunk_code"]
    /\ UNCHANGED <<vecVars, lexVars, db_chunks, query_logs>>

\* the caller takes the chunk list
TakeChunks ==
    /\ chunker.pc = "returned"
    /\ chunker' = NoCall
    /\ out' = Blank
    /\ UNCHANGED <<vecVars, lexVars, db_chunks, query_logs>>

ChunkSizes == 1..MaxChunkSize
Overlaps == 0..MaxChunkSize

NextChunk ==
    \/ \E total_tokens \in 0..MaxTokens, chunk_size \in ChunkSizes, overlap \in Overlaps :
          chunk_document_begin(total_tokens, chunk_size, overlap)
    \/ chunk_document_iterate
    \/ \E blocks \in BlockLists, chunk_size \in ChunkSizes, overlap \in Overlaps :
          chunk_code(blocks, chunk_size, overlap)
    \/ TakeChunks

SpecChunk == Init /\ [][NextChunk]_vars

NextVector ==
    \/ \E p \in Procs : load_or_create(p)
    \/ \E batch \in Batches : add_embeddings("ingest", batch)
    \/ \E p \in Procs : save(p)
    \/ \E qv \in Vectors \cup WideVectors, k \in TopKs :
           search_by_vector("server", qv, k)
    \/ \E p \in Procs : Restart(p)
    \/ \E p \in Procs : StopInSave(p)

SpecVector == Init /\ [][NextVector]_vars

NextLexical ==
    \/ \E chunks \in ChunkLists : build_index_begin(chunks)
    \/ build_index_construct
    \/ build_index_save
    \/ \E query \in Queries, top_k \in TopKs : bm25_search_begin(query, top_k)
    \/ bm25_search_end
    \/ bm25_save
    \/ bm25_load
    \/ StopInBM25Save
    \/ Restart("server")

SpecLexical == Init /\ [][NextLexical]_vars

\* saving and restoring both stores across stops of the processes: ingestion
\* adds one row at a time, builds take one chunk
NextRestore ==
    \/ \E p \in Procs : load_or_create(p)
    \/ \E v \in Vectors : add_embeddings("ingest", <<v>>)
    \/ \E p \in Procs : save(p)
    \/ \E p \in Procs : StopInSave(p)
    \/ \E p \in Procs : Restart(p)
    \/ \E chunks \in {cs \in ChunkLists : Len(cs) = 1} : build_index_begin(chunks)
    \/ build_index_construct
    \/ build_index_save
    \/ StopInBM25Save
    \/ bm25_load
    \/ bm25_save

SpecRestore == Init /\ [][NextRestore]_vars

\* ------------------------------------------------------------------------
\* Properties of the vector store
\* ------------------------------------------------------------------------
\* C1: an add_embeddings call that adds N vectors returns exactly the fids
\* next_id, ..., next_id + N - 1 of the counter before the call, and leaves
\* the counter N higher.
C1_AddReturnsNextIds ==
    [][\A p \in Procs :
          (out'.op = "add_embeddings" /\ out'.proc = p /\ out'.err = "")
              => /\ out'.ids = [i \in 1..out'.n |-> vs_next_id[p] + i - 1]
                 /\ vs_next_id'[p] = vs_next_id[p] + out'.n]_vars

\* a second add has returned fids that start above 0
C1_Witness ==
    /\ out.op = "add_embeddings" /\ out.err = ""
    /\ out.n >= 1 /\ out.ids[1] >= 1

\* C4 (as amended): a search on a store that was never loaded raises and
\* yields no results; a search on a loaded index holding no vectors returns
\* the empty sequence without an error.
C4_SearchBeforeLoadRaises ==
    out.op = "search_by_vector" =>
        /\ ~vs_index[out.proc].some => out.err # "" /\ out.results = <<>>
        /\ (vs_index[out.proc].some /\ ntotal(vs_index[out.proc]) = 0
                /\ Len(out.qv) = vs_index[out.proc].d)
               => out.err = "" /\ out.results = <<>>

C4_Witness ==
    /\ out.op = "search_by_vector" /\ ~vs_index[out.proc].some
    /\ out.err = "AssertionError"

\* C4 as stated: a search before load_or_create returns the empty sequence
\* and raises nothing.
C4_SearchBeforeLoadIsEmpty ==
    (out.op = "search_by_vector" /\ ~vs_index[out.proc].some)
        => out.err = "" /\ out.results = <<>>

\* C6: save on a store that is unloaded or holds zero vectors leaves the
\* file at index_path exactly as it was.
C6_EmptySaveKeepsFile ==
    [][\A p \in Procs :
          (out'.op = "save" /\ out'.proc = p
              /\ (~vs_index[p].some \/ ntotal(vs_index[p]) = 0))
              => faiss_file' = faiss_file]_vars

\* an empty loaded store has just been saved while a snapshot with vectors
\* is on disk
C6_Witness ==
    /\ out.op = "save" /\ vs_index[out.proc].some
    /\ ntotal(vs_index[out.proc]) = 0
    /\ faiss_file.kind = "index" /\ faiss_file.ntotal > 0

\* the searches of a store, for every query row and k
AllSearches(index) ==
    [qv \in Vectors, k \in TopKs |-> SearchOutcome(index, qv, k)]

\* a save by one process directly followed by load_or_create on another,
\* freshly created store
RestoreAfterPersist ==
    /\ out.op = "save" /\ vs_index[out.proc].some
    /\ out'.op = "load_or_create" /\ out'.proc # out.proc
    /\ vs_index[out'.proc] = FreshStore.index
    /\ vs_next_id[out'.proc] = FreshStore.next_id

\* C9 (as amended): save followed by load_or_create on a fresh store gives
\* the searches of the saved index when that index holds a vector, or holds
\* none and no file exists.
C9_RoundTripOfNonEmpty ==
    [][(RestoreAfterPersist
           /\ (ntotal(vs_index[out.proc]) > 0 \/ faiss_file.kind = "none"))
          => /\ out'.err = ""
             /\ vs_next_id'[out'.proc] = vs_next_id[out.proc]
             /\ AllSearches(vs_index'[out'.proc]) = AllSearches(vs_index[out.proc])]_vars

\* a fresh store has been restored from the save of a store with two rows
\* whose order matters to a search
C9_Witness ==
    /\ out.op = "load_or_create" /\ out.err = ""
    /\ ntotal(vs_index[out.proc]) = 2
    /\ \E q \in Procs : q # out.proc /\ vs_index[q] = vs_index[out.proc]
    /\ vs_index[out.proc].xb[1] # vs_index[out.proc].xb[2]

\* C9 as stated: the round trip reproduces the searches for every saved
\* index, the one with zero vectors included (a file cut short by a stopped
\* writer is left aside: the restore raises on it).
C9_RoundTripOfAny ==
    [][(RestoreAfterPersist /\ faiss_file.kind # "corrupt")
          => AllSearches(vs_index'[out'.proc]) = AllSearches(vs_index[out.proc])]_vars

\* ------------------------------------------------------------------------
\* Properties of the lexical store
\* ------------------------------------------------------------------------
\* a search of the lexical store returns: its result loop has run
SearchReturns == s_pc = "scored" /\ s_pc' = "idle" /\ out'.op = "bm25_search"

\* C3: a search that returns while build_index is under way returns what
\* the index object it scored gives with the fid list that index was built
\* with (the previous index whole or the new index whole), without an error.
C3_SearchSeesOneCorpus ==
    [][(SearchReturns /\ b_pc # "idle")
          => /\ out'.err = ""
             /\ out'.results =
                  BM25SearchOutcome(s_index, s_index.built_from,
                                    s_query, s_top_k).results]_vars

\* C7: no write to bm25_index_path puts a snapshot of zero content (no
\* index, empty fid list) where a file already is.
C7_NoEmptySnapshotOverFile ==
    [][bm25_file.kind # "none"
          => ~(/\ bm25_file' # bm25_file
               /\ bm25_file'.kind = "pickle"
               /\ ~bm25_file'.index.some
               /\ bm25_file'.faiss_ids = <<>>)]_vars

\* the searches of the lexical store, for every query and top_k
AllLexicalSearches(index, ids) ==
    [query \in Queries, top_k \in TopKs |-> BM25SearchOutcome(index, ids, query, top_k)]

\* C8 (as amended): build_index on an empty list leaves the store and the
\* file as they were: every search returns what it returned before.
C8_EmptyBuildChangesNothing ==
    [][(out'.op = "build_index" /\ out'.n = 0)
          => /\ bm_index' = bm_index
             /\ bm_faiss_ids' = bm_faiss_ids
             /\ bm25_file' = bm25_file
             /\ AllLexicalSearches(bm_index', bm_faiss_ids')
                    = AllLexicalSearches(bm_index, bm_faiss_ids)]_vars

\* build_index([]) has returned on a store whose earlier index still
\* answers a query
C8_Witness ==
    /\ out.op = "build_index" /\ out.n = 0 /\ bm_index.some
    /\ \E query \in Queries, top_k \in TopKs :
          BM25SearchOutcome(bm_index, bm_faiss_ids, query, top_k).results # <<>>

\* C8 as stated: once build_index([]) has returned, every search returns
\* the empty sequence.
C8_EmptyBuildEmptiesIndex ==
    (out.op = "build_index" /\ out.n = 0)
        => \A query \in Queries, top_k \in TopKs :
              BM25SearchOutcome(bm_index, bm_faiss_ids, query, top_k).results = <<>>

\* ------------------------------------------------------------------------
\* Properties of hybrid_search
\* ------------------------------------------------------------------------
\* C2: on a server whose vector index is loaded, a call of hybrid_search with
\* a mode that is none of vector, bm25, lexical and hybrid raises nothing and
\* returns the ranking that mode hybrid returns for the same query, top_k and
\* stores, for some embedding of the query.
C2_UnknownModeIsHybrid ==
    (/\ out.op = "hybrid_search"
     /\ out.mode \notin {"vector", "bm25", "hybrid", "lexical"}
     /\ vs_index["server"].some)
        => /\ out.err = ""
           /\ \E embedding \in Embeddings :
                 out.results =
                     RetrieveOutcome(vs_index["server"], bm_index, bm_faiss_ids,
                                     out.query, embedding, out.top_k, "hybrid").results

\* C5: on a server whose vector index is loaded, a call in mode hybrid during
\* which exactly one of the two searches raises does not raise, and returns
\* the ranking fused from the list of the other search alone.
C5_HybridSurvivesOneFailingPath ==
    (out.op = "hybrid_search" /\ out.mode = "hybrid" /\ vs_index["server"].some)
        => LET v == SearchOutcome(vs_index["server"], out.qv, out.top_k * PoolFactor)
               b == BM25SearchOutcome(bm_index, bm_faiss_ids, out.query,
                                      out.top_k * PoolFactor)
           IN  /\ (v.err = "" /\ b.err # "")
                     => /\ out.err = ""
                        /\ out.results = HybridRanking(v.results, <<>>, out.query, out.top_k)
               /\ (v.err # "" /\ b.err = "")
                     => /\ out.err = ""
                        /\ out.results = HybridRanking(<<>>, b.results, out.query, out.top_k)

\* ------------------------------------------------------------------------
\* Properties of restoring from a file that cannot be parsed
\* ------------------------------------------------------------------------
\* C10: load_or_create on a file it cannot parse raises to its caller and
\* leaves the store as it was; BM25Store.load on a file it cannot parse
\* catches the exception, prints it and returns normally, leaving the store
\* as it was.
C10_CorruptFileRaisesOrIsLogged ==
    [][ /\ \A p \in Procs :
             (faiss_file.kind = "corrupt" /\ out'.op = "load_or_create" /\ out'.proc = p)
                 => /\ out'.err # ""
                    /\ vs_index'[p] = vs_index[p]
                    /\ vs_next_id'[p] = vs_next_id[p]
        /\ (bm25_file.kind = "corrupt" /\ out'.op = "bm25_load")
                 => /\ out'.err = ""
                    /\ out'.logged # ""
                    /\ bm_index' = bm_index
                    /\ bm_faiss_ids' = bm_faiss_ids ]_vars

\* both files are cut short, the server's load_or_create would raise, and
\* BM25Store.load has just returned after printing the exception
C10_Witness ==
    /\ out.op = "bm25_load" /\ out.logged = "UnpicklingError" /\ out.err = ""
    /\ bm25_file.kind = "corrupt"
    /\ faiss_file.kind = "corrupt"
    /\ LoadOutcome(vs_index["server"], vs_next_id["server"], faiss_file).err # ""

\* C10 as stated: each of the two restores raises on a file it cannot parse
C10_CorruptFileAlwaysRaises ==
    [][ /\ (faiss_file.kind = "corrupt" /\ out'.op = "load_or_create") => out'.err # ""
        /\ (bm25_file.kind = "corrupt" /\ out'.op = "bm25_load") => out'.err # "" ]_vars

\* ------------------------------------------------------------------------
\* Properties of the rank fusion
\* ------------------------------------------------------------------------
\* the two lists the fused branch works on for the call reported in out
VResults ==
    SearchOutcome(vs_index["server"], out.qv, out.top_k * PoolFactor).results

BResults ==
    BM25SearchOutcome(bm_index, bm_faiss_ids, out.query, out.top_k * PoolFactor).results

\* a hybrid call that returned a ranking
HybridReturned == out.op = "hybrid_search" /\ out.mode = "hybrid" /\ out.err = ""

FidsOf(results) == {results[i].faiss_id : i \in 1..Len(results)}

\* 1/(60 + rank) of fid in a list, rank counted from 1; 0 when it is absent
RankTerm(results, fid) ==
    IF fid \in FidsOf(results)
    THEN RRFUnits \div (60 + (CHOOSE r \in 1..Len(results) : results[r].faiss_id = fid))
    ELSE 0

\* a result list holding the given fids in this order
ListOf(fids) == [i \in 1..Len(fids) |-> [faiss_id |-> fids[i], score |-> 0]]

\* fused holds one item per fid of v and b, scored by the sum of its terms
IsSumOfReciprocals(fused, v, b) ==
    /\ FidsOf(fused) = FidsOf(v) \cup FidsOf(b)
    /\ \A i \in 1..Len(fused) :
          fused[i].score = RankTerm(v, fused[i].faiss_id) + RankTerm(b, fused[i].faiss_id)

\* C11: before the boost, the fused score of every fid of either list is the
\* sum of 1/(60 + rank) over the lists that hold it, and no other fid has a
\* score; fusing [5,3,1] with [3,7,5] gives fid 3 the score 1/62 + 1/61 and,
\* cut at 3, the order 3, 5, then 1 or 7.
C11_FusedScoreIsSumOfReciprocals ==
    /\ HybridReturned =>
          \A v \in {VResults}, b \in {BResults} : IsSumOfReciprocals(Fuse(v, b), v, b)
    /\ \A fused \in {Fuse(ListOf(<<5, 3, 1>>), ListOf(<<3, 7, 5>>))} :
       \A top \in {Ranked(fused, 3)} :
           /\ \E i \in 1..Len(fused) :
                 /\ fused[i].faiss_id = 3
                 /\ fused[i].score = RRFUnits \div 62 + RRFUnits \div 61
           /\ Len(top) = 3
           /\ top[1].faiss_id = 3 /\ top[2].faiss_id = 5 /\ top[3].faiss_id \in {1, 7}

\* some fid stands in both lists at different ranks
InBothAtDifferentRanks(v, b) ==
    \E i \in 1..Len(v), j \in 1..Len(b) : v[i].faiss_id = b[j].faiss_id /\ i # j

\* a hybrid call returned in which some fid stands in both lists at
\* different ranks
C11_Witness ==
    HybridReturned /\ \E v \in {VResults}, b \in {BResults} : InBothAtDifferentRanks(v, b)

\* both lists start with the same fid
SameHead(v, b) == v # <<>> /\ b # <<>> /\ v[1].faiss_id = b[1].faiss_id

\* no score of fused is above 2/(60 + 1); the common head of v and b has it
HeadHasTopScore(fused, v, b) ==
    /\ \A i \in 1..Len(fused) : fused[i].score <= 2 * (RRFUnits \div 61)
    /\ SameHead(v, b)
          => \E i \in 1..Len(fused) :
                /\ fused[i].faiss_id = v[1].faiss_id
                /\ fused[i].score = 2 * (RRFUnits \div 61)

\* C12: before the boost, no fid of a fusion has a score above 2/(60 + 1),
\* and a fid that is first in both lists has exactly that score.
C12_FirstInBothHasTopScore ==
    HybridReturned =>
        \A v \in {VResults}, b \in {BResults} : HeadHasTopScore(Fuse(v, b), v, b)

\* a hybrid call returned whose two lists start with the same fid, and the
\* fusion holds other fids too
C12_Witness ==
    HybridReturned /\ \E v \in {VResults}, b \in {BResults} :
                          SameHead(v, b) /\ Len(Fuse(v, b)) > 1

\* results is a cut at top_k of the items of final, best first
IsTopKOf(results, top_k, final, v, b) ==
    /\ Len(results) <= top_k
    /\ \A i, j \in 1..Len(results) :
          i < j => /\ results[i].faiss_id # results[j].faiss_id
                   /\ results[i].score >= results[j].score
    /\ \A i \in 1..Len(results) :
          /\ results[i].faiss_id \in FidsOf(v) \cup FidsOf(b)
          /\ \E n \in 1..Len(final) : final[n] = results[i]
    /\ \A n \in 1..Len(final) :
          final[n].faiss_id \notin FidsOf(results)
              => /\ Len(results) = top_k
                 /\ \A i \in 1..Len(results) : final[n].score <= results[i].score

\* C13: the list a hybrid call returns has at most top_k entries, no fid
\* twice, only fids of the vector list or the lexical list, each with its
\* final score, in non-increasing score order; no fid left out has a final
\* score strictly above that of a fid in the list.
C13_FusedListIsTopKOfFinalScores ==
    HybridReturned =>
        \A v \in {VResults}, b \in {BResults} :
            IsTopKOf(out.results, out.top_k, Boost(Fuse(v, b), out.query), v, b)

\* a hybrid call returned top_k entries and left out a fid of the fusion,
\* and the first fid of its answer is not the first one of the vector list
C13_Witness ==
    /\ HybridReturned
    /\ Len(out.results) = out.top_k
    /\ \E v \in {VResults}, b \in {BResults} :
          /\ Len(Fuse(v, b)) > out.top_k
          /\ v # <<>> /\ out.results[1].faiss_id # v[1].faiss_id

\* ------------------------------------------------------------------------
\* Properties of the title boost
\* ------------------------------------------------------------------------
\* kw stands in text from position i on
OccursAt(text, kw, i) ==
    i + Len(kw) - 1 <= Len(text) /\ \A j \in 1..Len(kw) : text[i + j - 1] = kw[j]

\* some keyword of the list is a substring of the lowercased title of fid
KeywordInTitle(fid, keywords) ==
    \E n \in 1..Len(keywords) :
        \E i \in 1..Len(TitleOf(fid)) : OccursAt(Lower(TitleOf(fid)), keywords[n], i)

\* final is fused with the score of every fid whose title holds a keyword
\* tripled, and the others as they were
IsBoostOf(final, fused, keywords) ==
    /\ Len(final) = Len(fused)
    /\ \A i \in 1..Len(fused) :
          /\ final[i].faiss_id = fused[i].faiss_id
          /\ IF KeywordInTitle(fused[i].faiss_id, keywords)
             THEN final[i].score = 3 * fused[i].score /\ final[i].score > fused[i].score
             ELSE final[i].score = fused[i].score

\* results is final sorted by non-increasing score and cut
IsSortedCutOf(results, final) ==
    /\ \A i \in 1..Len(results) : \E n \in 1..Len(final) : final[n] = results[i]
    /\ \A i, j \in 1..Len(results) : i < j => results[i].score >= results[j].score

\* C14: in a hybrid call the fused score of a fid is multiplied by 3 exactly
\* once when some keyword of the query is a substring of its lowercased title
\* and is left as it was otherwise (a fid with no title row included); a
\* boosted score is above the score before the boost, and the call returns
\* the scores after the boost in non-increasing order.
C14_BoostTriplesOnceAndSorts ==
    HybridReturned =>
        \A v \in {VResults}, b \in {BResults} :
        \A final \in {Boost(Fuse(v, b), out.query)} :
            /\ IsBoostOf(final, Fuse(v, b), Keywords(out.query))
            /\ IsSortedCutOf(out.results, final)

\* a hybrid call returned in which a fid whose title holds two keywords of the
\* query was boosted past a fid that scored higher before the boost
C14_Witness ==
    /\ HybridReturned
    /\ Len(Keywords(out.query)) = 2
    /\ \E v \in {VResults}, b \in {BResults} :
       \E fused \in {Fuse(v, b)} :
       \E i, j \in 1..Len(fused) :
          /\ \A n \in 1..2 : KeywordInTitle(fused[i].faiss_id, <<Keywords(out.query)[n]>>)
          /\ ~KeywordInTitle(fused[j].faiss_id, Keywords(out.query))
          /\ fused[i].score < fused[j].score
          /\ \E p \in 1..Len(out.results) :
                /\ out.results[p].faiss_id = fused[i].faiss_id
                /\ \A q \in 1..p : out.results[q].faiss_id # fused[j].faiss_id

\* the maximal runs of word characters of a text, as <<first, last>> positions
WordRuns(text) ==
    {r \in (1..Len(text)) \X (1..Len(text)) :
        /\ r[1] <= r[2]
        /\ \A n \in r[1]..r[2] : text[n] \in WordChars
        /\ r[1] = 1 \/ text[r[1] - 1] \notin WordChars
        /\ r[2] = Len(text) \/ text[r[2] + 1] \notin WordChars}

\* the lowercased runs of word characters longer than 2
RunKeywords(query) ==
    {Lower(SubSeq(query, r[1], r[2])) : r \in {w \in WordRuns(query) : w[2] - w[1] + 1 > 2}}

\* the lowercased whitespace-delimited tokens longer than 2
SpaceKeywords(query) ==
    {Lower(Split(query)[n]) : n \in {m \in 1..Len(Split(query)) : Len(Split(query)[m]) > 2}}

\* some keyword of the set is a substring of the lowercased title of fid
BoostedBy(fid, kwset) ==
    \E kw \in kwset : \E i \in 1..Len(TitleOf(fid)) : OccursAt(Lower(TitleOf(fid)), kw, i)

\* the answer in out is the ranking in which exactly the fids with a keyword
\* of kwset in their title were boosted
AnswerUses(kwset) ==
    \A v \in {VResults}, b \in {BResults} :
    \A fused \in {Fuse(v, b)} :
        out.results =
            Ranked([i \in 1..Len(fused) |->
                       [fused[i] EXCEPT !.score =
                           IF BoostedBy(fused[i].faiss_id, kwset) THEN 3 * @ ELSE @]],
                   out.top_k)

\* C15: the keywords of the title boost are the lowercased maximal runs of
\* word characters (\w+) of the query that are longer than 2: punctuation
\* next to a word is not part of the keyword.
C15_KeywordsAreWordRuns ==
    HybridReturned =>
        /\ {Keywords(out.query)[n] : n \in 1..Len(Keywords(out.query))}
               = RunKeywords(out.query)
        /\ AnswerUses(RunKeywords(out.query))

\* a hybrid call returned a fid boosted by a keyword that is no
\* whitespace-delimited token of the query
C15_Witness ==
    /\ HybridReturned
    /\ \E i \in 1..Len(out.results) :
          /\ BoostedBy(out.results[i].faiss_id, RunKeywords(out.query))
          /\ ~BoostedBy(out.results[i].faiss_id, SpaceKeywords(out.query))

\* C15 as stated: the keywords are the whitespace-delimited tokens of the
\* query longer than 2 (lowercased, as titles are)
C15_KeywordsAreSpaceTokens ==
    HybridReturned => AnswerUses(SpaceKeywords(out.query))

\* ------------------------------------------------------------------------
\* Properties of the two searches
\* ------------------------------------------------------------------------
\* a search_by_vector call on a loaded index with a query row of its width
SearchedLoaded ==
    /\ out.op = "search_by_vector"
    /\ vs_index[out.proc].some
    /\ Len(out.qv) = vs_index[out.proc].d

\* C16: a search on a loaded index of S vectors with a query of its width
\* raises nothing and returns exactly min(k, S) pairs of distinct stored fids,
\* each with its inner product, in non-increasing score order: all S when
\* k > S, none when S = 0.
C16_SearchReturnsMinOfKAndSize ==
    SearchedLoaded =>
        \A index \in {vs_index[out.proc]} :
            /\ out.err = ""
            /\ Len(out.results) = Min(out.top_k, ntotal(index))
            /\ \A i \in 1..Len(out.results) :
                  /\ out.results[i].faiss_id \in 0..(ntotal(index) - 1)
                  /\ out.results[i].score
                        = Dot(index.xb[out.results[i].faiss_id + 1], out.qv)
            /\ \A i, j \in 1..Len(out.results) :
                  i < j => /\ out.results[i].faiss_id # out.results[j].faiss_id
                           /\ out.results[i].score >= out.results[j].score

\* a search asked for more vectors than the index holds and got all it holds
C16_Witness ==
    /\ SearchedLoaded
    /\ out.top_k > ntotal(vs_index[out.proc])
    /\ ntotal(vs_index[out.proc]) > 0
    /\ Len(out.results) = ntotal(vs_index[out.proc])

\* C17: a lexical search that returns gives at most top_k pairs in
\* non-increasing score order, every score above 0; on a store with no index
\* built it returns the empty sequence.
C17_LexicalHitsArePositiveAndSorted ==
    [][out'.op = "bm25_search"
          => /\ out'.err = ""
                  => /\ Len(out'.results) <= out'.top_k
                     /\ \A i \in 1..Len(out'.results) : out'.results[i].score > 0
                     /\ \A i, j \in 1..Len(out'.results) :
                           i < j => out'.results[i].score >= out'.results[j].score
             /\ (s_pc = "idle" /\ ~bm_index.some)
                  => out'.err = "" /\ out'.results = <<>>]_vars

\* a search of a built index returned two pairs of different scores
C17_Witness ==
    /\ out.op = "bm25_search" /\ out.err = ""
    /\ bm_index.some
    /\ Len(out.results) = 2
    /\ out.results[1].score > out.results[2].score

\* ------------------------------------------------------------------------
\* Properties of add_embeddings
\* ------------------------------------------------------------------------
\* some row of the batch has another width than the index
WrongWidth(index, batch) == \E i \in 1..Len(batch) : Len(batch[i]) # index.d

\* C18: add_embeddings on a loaded index with rows of another width than the
\* index raises and leaves the stored vectors, next_id and the file as they
\* were.
C18_WrongWidthAddChangesNothing ==
    [][\A p \in Procs, batch \in Batches :
          (/\ vs_index[p].some
           /\ WrongWidth(vs_index[p], batch)
           /\ add_embeddings(p, batch))
              => /\ out'.err # ""
                 /\ out'.ids = <<>>
                 /\ vs_index' = vs_index
                 /\ vs_next_id' = vs_next_id
                 /\ faiss_file' = faiss_file]_vars

\* an add of one row has just failed on a store that holds vectors
C18_Witness ==
    /\ out.op = "add_embeddings" /\ out.err = "AssertionError" /\ out.n = 1
    /\ vs_index[out.proc].some
    /\ ntotal(vs_index[out.proc]) > 0
    /\ vs_next_id[out.proc] = ntotal(vs_index[out.proc])

\* C19: add_embeddings removes, renumbers and changes nothing: every fid in
\* a store before the call is in it after the call, with the same vector.
C19_AddIsAppendOnly ==
    [][out'.op = "add_embeddings"
          => \A p \in Procs :
                /\ ntotal(vs_index'[p]) >= ntotal(vs_index[p])
                /\ vs_next_id'[p] >= vs_next_id[p]
                /\ \A i \in 1..ntotal(vs_index[p]) :
                      vs_index'[p].xb[i] = vs_index[p].xb[i]]_vars

\* an add has just put a row behind a stored row that differs from it
C19_Witness ==
    /\ out.op = "add_embeddings" /\ out.err = "" /\ out.n > 0
    /\ ntotal(vs_index[out.proc]) > out.n
    /\ vs_index[out.proc].xb[1] # vs_index[out.proc].xb[ntotal(vs_index[out.proc])]

\* ------------------------------------------------------------------------
\* Properties of ingestion
\* ------------------------------------------------------------------------
\* fid is a row of the vector index of some process or of the index file
InSomeVectorIndex(fid) ==
    \/ \E p \in Procs : vs_index[p].some /\ fid >= 0 /\ fid < ntotal(vs_index[p])
    \/ faiss_file.kind = "index" /\ fid >= 0 /\ fid < faiss_file.ntotal

\* C20: every fid of a built lexical index is a fid of the vector index (of
\* the one a process holds or of the one on disk).
C20_LexicalFidsAreVectorFids ==
    bm_index.some => \A i \in 1..Len(bm_faiss_ids) : InSomeVectorIndex(bm_faiss_ids[i])

\* ------------------------------------------------------------------------
\* Properties of the modes of hybrid_search
\* ------------------------------------------------------------------------
FidSeq(results) == [i \in 1..Len(results) |-> results[i].faiss_id]

Called(mode) == out.op = "hybrid_search" /\ out.mode = mode

\* C21: a call in lexical mode ("bm25") never calls the embedding provider,
\* reports embedding time 0 whatever the clock did, queries the lexical index
\* once with k and returns exactly its result: the vector index is not
\* searched, nothing is fused and no title is looked up.
C21_LexicalModeIsPureLexicalSearch ==
    Called("bm25") =>
        \A b \in {BM25SearchOutcome(bm_index, bm_faiss_ids, out.query, out.top_k)} :
            /\ out.n = 0
            /\ out.qv = NoVector
            /\ out.embed_ms = 0
            /\ out.v_calls = <<>>
            /\ out.b_calls = <<out.top_k>>
            /\ out.title_calls = 0
            /\ out.err = b.err
            /\ out.results = b.results

\* a lexical call whose clock ran a millisecond or more where the other modes
\* embed, and whose answer is not the fid list a hybrid call would give
C21_Witness ==
    /\ Called("bm25")
    /\ out.err = ""
    /\ out.results # <<>>
    /\ (out.clock[2] - out.clock[1]) * 1000 >= TicksPerSecond
    /\ \E e \in Vectors :
          FidSeq(RetrieveOutcome(vs_index["server"], bm_index, bm_faiss_ids,
                                 out.query, e, out.top_k, "hybrid").results)
              # FidSeq(out.results)

\* C22: a call in vector mode calls the embedding provider exactly once and
\* returns exactly what the vector index gives for that embedding and k
\* (its results, or its error); the lexical index is not queried and no title
\* is looked up.
C22_VectorModeIsPureVectorSearch ==
    Called("vector") =>
        \A v \in {SearchOutcome(vs_index["server"], out.qv, out.top_k)} :
            /\ out.n = 1
            /\ out.qv \in Embeddings
            /\ out.v_calls = <<out.top_k>>
            /\ out.b_calls = <<>>
            /\ out.title_calls = 0
            /\ out.err = v.err
            /\ out.results = v.results

\* a vector call that returned hits while the lexical index had a hit for
\* the query and a hybrid call would have answered otherwise
C22_Witness ==
    /\ Called("vector")
    /\ out.err = ""
    /\ out.results # <<>>
    /\ BM25SearchOutcome(bm_index, bm_faiss_ids, out.query, out.top_k).results # <<>>
    /\ FidSeq(RetrieveOutcome(vs_index["server"], bm_index, bm_faiss_ids,
                              out.query, out.qv, out.top_k, "hybrid").results)
           # FidSeq(out.results)

\* the first n entries of a list
FirstN(results, n) == SubSeq(results, 1, Min(n, Len(results)))

IsWholeMs(m, ticks) ==
    /\ m \in Nat
    /\ m * TicksPerSecond <= ticks * 1000
    /\ ticks * 1000 < (m + 1) * TicksPerSecond

\* C24: every call that returns, in every mode, reports embed_ms and
\* retrieval_ms as integers that are never negative under a clock that does
\* not go back, and they are this call's: embed_ms is the whole milliseconds
\* between the two readings around the embedding (0 in a mode that does not
\* embed), retrieval_ms the whole milliseconds between the two readings
\* around the retrieval.
C24_MetricsAreNonNegativeAndFresh ==
    (out.op = "hybrid_search" /\ out.err = "") =>
        /\ out.embed_ms \in Nat
        /\ out.retrieval_ms \in Nat
        /\ IF out.mode \in {"vector", "hybrid"}
           THEN IsWholeMs(out.embed_ms, out.clock[2] - out.clock[1])
           ELSE out.embed_ms = 0
        /\ IsWholeMs(out.retrieval_ms, out.clock[4] - out.clock[3])

\* a hybrid call whose embedding took a millisecond and whose retrieval took
\* less than one
C24_Witness ==
    /\ Called("hybrid")
    /\ out.err = ""
    /\ out.embed_ms = 1
    /\ out.retrieval_ms = 0

\* ------------------------------------------------------------------------
\* Properties of POST /query
\* ------------------------------------------------------------------------
\* C25: a request answered with status 200 has written a query_logs row for
\* itself, with latency_ms, embed_ms and retrieval_ms filled with values
\* >= 0, whatever the retrieval returned (also when nothing passes the
\* min_score filter).
C25_Every200IsLogged ==
    (out.op = "query_documents" /\ out.status = 200) =>
        /\ out.rows = 1
        /\ query_logs # <<>>
        /\ \A row \in {query_logs[Len(query_logs)]} :
              /\ row.query = out.query
              /\ row.latency_ms >= 0
              /\ row.embed_ms >= 0
              /\ row.retrieval_ms >= 0

\* ------------------------------------------------------------------------
\* Properties of the chunker
\* ------------------------------------------------------------------------
\* C26: the list chunk_document returns, and the list chunk_code returns,
\* carries chunk_index 0, 1, ..., n-1 in list order, without gap or repeat.
C26_ChunkIndexIsSequential ==
    chunker.pc = "returned" =>
        \A i \in 1..Len(chunker.chunks) : chunker.chunks[i].chunk_index = i - 1

\* chunk_code returned a list whose third or later chunk has tokens beyond
\* the chunk before it: pending text was saved and a block was split
C26_Witness ==
    /\ chunker.pc = "returned"
    /\ chunker.fn = "chunk_code"
    /\ Len(chunker.chunks) >= 3
    /\ chunker.chunks[1].token_count < chunker.chunk_size
    /\ chunker.chunks[2].token_count = chunker.chunk_size

\* C30: chunk_document terminates for every text and every chunk_size >= 1
\* and chunk_overlap >= 0: every round of the loop that goes round again has
\* moved start forward, so the loop makes no more rounds than the text has
\* tokens.
C30_WindowAdvancesToTheEnd ==
    [][chunk_document_iterate =>
          /\ chunker'.pc = "loop" => chunker'.start > chunker.start
          /\ Len(chunker'.chunks) <= chunker.total_tokens]_vars

\* C27: across the interleavings of a server (load_or_create at startup, save
\* at shutdown) and an ingestion (load_or_create, add_embeddings, save) on
\* one index file, the number of vectors in the file never decreases.
C27_FileNeverLosesVectors ==
    [][faiss_file'.ntotal >= faiss_file.ntotal]_vars

\* fid is recorded in the chunks table
Recorded(db, fid) == \E i \in 1..Len(db) : db[i] = fid

\* C28: no fid is assigned twice, and every fid the chunks table records
\* identifies its vector in the restored index: a round of ingestion hands
\* out no fid the table already records, and whenever no ingestion is
\* running (it saved and ended, or stopped before save) every recorded fid
\* is a position of the index file a restart restores.
C28_FidsAssignedOnceAndRestorable ==
    [][/\ (\E batch \in Batches : ingest_document(batch)) =>
              \A i \in 1..Len(out'.ids) : ~Recorded(db_chunks, out'.ids[i])
       /\ ~vs_index'["ingest"].some =>
              \A i \in 1..Len(db_chunks') : db_chunks'[i] < faiss_file'.ntotal]_vars

\* ------------------------------------------------------------------------
\* Properties of the lexical store between its operations
\* ------------------------------------------------------------------------
\* C29: after any sequence of build_index and load calls, failed ones
\* included, the index and faiss_ids describe one corpus: while no build is
\* under way, a stored index has one fid per document, the fid of the chunk
\* the document was tokenised from, in order.
C29_IndexAndFidsAreOneCorpus ==
    (b_pc = "idle" /\ bm_index.some) =>
        /\ Len(bm_faiss_ids) = Len(bm_index.corpus)
        /\ bm_faiss_ids = bm_index.built_from

====
